---- MODULE Spec2Model ----
(***************************************************************************)
(* Versioned skill store of the Skills Factory backend: the skills,        *)
(* skill_versions and skill_usage tables and the handlers that write them  *)
(* (POST /generate-skill, PUT /skills/:id, DELETE /skills/:id,             *)
(* POST /skills/:id/publish).                                              *)
(*                                                                         *)
(* Strings that the code inspects character by character (skill names) are *)
(* sequences of one-character strings.  Documents are opaque tokens with a *)
(* length (ContentLen).  An optional request field is <<>> when the field  *)
(* is not supplied and <<v>> when it is supplied with value v.             *)
(***************************************************************************)
EXTENDS Integers, Sequences, FiniteSets, TLC

\* ------------------------------------------------------------------------
\* Bounds of the model
\* ------------------------------------------------------------------------
\* skill ids ever allocated by AUTOINCREMENT
MaxSkills == 2
\* skill_versions rows ever inserted by committed updates
MaxSnapshots == 2
\* skill_usage rows ever inserted
MaxUsage == 1
\* publish requests that reach the code host
MaxPublish == 1
\* largest maxRetries passed to callClaudeWithRetry
MaxRetriesBound == 6
\* concurrent callers of callClaudeWithRateLimit
NumCallers == 2
\* the limiter under study is new RateLimiter(LimiterMaxRequests,
\* LimiterWindowTicks * TickMs)
LimiterMaxRequests == 2
LimiterWindowTicks == 3
\* longest response text handed to parseClaudeResponse
MaxTextLen == 5
NumAnalyzeRequests == 2
MaxNameInputLen == 4
MaxWrapRetries == 3
CacheTtlTicks == 2
MaxClock == 3

\* ------------------------------------------------------------------------
\* Program constants
\* ------------------------------------------------------------------------
MinNameLen == 3
MaxNameLen == 50
MinContentLen == 100
DefaultMaxRetries == 3
\* confidences are held in hundredths: 0.5 is 50 and 1 is 100
DefaultConfidence == 50
ConfidenceOne == 100
BackoffBaseMs == 1000
BackoffCapMs == 30000
\* the clock Date.now() is read in steps of one second
TickMs == 1000

Callers == 1..NumCallers

DefaultAnalyzeRetries == 2
MinAnalyzeLen == 10
MaxAnalyzeLen == 50000
MaxAnalyzeTokens == 150000
AnalyzeRequests == 1..NumAnalyzeRequests

None == <<>>
Some(v) == <<v>>
IsSome(o) == Len(o) = 1
Val(o) == o[1]

\* ------------------------------------------------------------------------
\* Characters and formatSkillName
\* ------------------------------------------------------------------------
LowerLetters == {"a", "b", "i", "k", "l", "m", "s", "y"}
UpperLetters == {"A", "B", "M", "S"}
Digits == {"0", "1"}
Whitespace == {" "}

toLowerCase(c) ==
  CASE c = "A" -> "a"
    [] c = "B" -> "b"
    [] c = "M" -> "m"
    [] c = "S" -> "s"
    [] OTHER -> c

\* [a-z0-9]
IsSlugAlnum(c) == c \in LowerLetters \cup Digits

RECURSIVE trimLeft(_)
trimLeft(s) ==
  IF s # <<>> /\ Head(s) \in Whitespace THEN trimLeft(Tail(s)) ELSE s

RECURSIVE trimRight(_)
trimRight(s) ==
  IF s # <<>> /\ s[Len(s)] \in Whitespace
  THEN trimRight(SubSeq(s, 1, Len(s) - 1))
  ELSE s

trim(s) == trimRight(trimLeft(s))

\* .replace(/[^a-z0-9]+/g, '-'): every maximal run of other characters
\* becomes one hyphen
RECURSIVE replaceRuns(_)
replaceRuns(s) ==
  IF s = <<>> THEN <<>>
  ELSE IF IsSlugAlnum(Head(s)) THEN <<Head(s)>> \o replaceRuns(Tail(s))
  ELSE IF Len(s) >= 2 /\ ~IsSlugAlnum(s[2]) THEN replaceRuns(Tail(s))
  ELSE <<"-">> \o replaceRuns(Tail(s))

\* .replace(/^-+|-+$/g, '')
RECURSIVE stripLeftHyphens(_)
stripLeftHyphens(s) ==
  IF s # <<>> /\ Head(s) = "-" THEN stripLeftHyphens(Tail(s)) ELSE s

RECURSIVE stripRightHyphens(_)
stripRightHyphens(s) ==
  IF s # <<>> /\ s[Len(s)] = "-"
  THEN stripRightHyphens(SubSeq(s, 1, Len(s) - 1))
  ELSE s

\* variant: the hyphens at the ends are stripped before the runs are replaced
formatSkillNameStripFirst(name) ==
  replaceRuns(stripRightHyphens(stripLeftHyphens(trim(
    [i \in 1..Len(name) |-> toLowerCase(name[i])]))))

formatSkillName(name) ==
  stripRightHyphens(stripLeftHyphens(replaceRuns(trim(
    [i \in 1..Len(name) |-> toLowerCase(name[i])]))))

\* /^[a-z0-9-]+$/
MatchesSlugPattern(s) ==
  /\ Len(s) >= 1
  /\ \A i \in 1..Len(s) : IsSlugAlnum(s[i]) \/ s[i] = "-"

\* ------------------------------------------------------------------------
\* Documents, references and metadata
\* ------------------------------------------------------------------------
SkillTypes == {"copywriting", "process", "technical"}

\* names every object literal inherits from Object.prototype
InheritedKeys == {"constructor", "toString"}

\* length in characters of a document token
ContentLen(c) ==
  CASE c = "tiny" -> MinContentLen - 1
    [] c = "docB" -> MinContentLen
    [] OTHER -> 4 * MinContentLen

ReferenceFiles == {"practices.md", "structure.md", "examples.md"}

\* generateSkillFiles: the main template and the three reference templates
\* every skill type registers
generateSkillFiles(skillType, templateData) ==
  [main |-> "skill.md:" \o skillType,
   references |-> [f \in ReferenceFiles |-> f \o ":" \o skillType]]

RECURSIVE SumLen(_, _)
SumLen(refs, files) ==
  IF files = {} THEN 0
  ELSE LET f == CHOOSE x \in files : TRUE
       IN ContentLen(refs[f]) + SumLen(refs, files \ {f})

calculateTotalSize(skillFiles) ==
  ContentLen(skillFiles.main)
    + SumLen(skillFiles.references, DOMAIN skillFiles.references)

generateDescription(skillType) == "auto:" \o skillType

NoGithub == "none"

\* ------------------------------------------------------------------------
\* Requests
\* ------------------------------------------------------------------------
NameShort == <<"a">>
NameBangs == <<"a", "!", "!">>
NameSpaced == <<"M", "y", " ", "b">>
NameSlug == <<"m", "y", "-", "b">>
NameNoAlnum == <<"!", "!", "!">>
NameLong == [i \in 1..(MaxNameLen + 1) |-> "a"]

RawNames == {NameShort, NameBangs, NameSpaced, NameSlug, NameNoAlnum, NameLong}

\* analysis ids as they arrive in a request; "an1" and "an2" are UUIDs
AnalysisIdInputs == {"an1", "an2", "not-a-uuid"}
IsUuid(a) == a \in {"an1", "an2"}

\* a request that passes validation, and requests that differ from it in
\* one respect
BaseGenerate ==
  [analysisId |-> "an1", skillName |-> NameSlug, skillType |-> "process",
   description |-> None, tags |-> None]

GenerateRequests ==
  {[BaseGenerate EXCEPT !.skillName = n] : n \in RawNames}
    \cup {[BaseGenerate EXCEPT !.analysisId = a] : a \in AnalysisIdInputs}
    \cup {[BaseGenerate EXCEPT !.skillType = "bogus"]}
    \cup {[BaseGenerate EXCEPT !.description = Some(""), !.tags = Some(<<>>)]}

RefsB == [f \in {"notes.md"} |-> "docB"]

NoFields ==
  [name |-> None, description |-> None, mainContent |-> None,
   references |-> None, tags |-> None]

\* names supplied to an update: too short, not a slug, a slug
UpdateNames == {NameShort, NameSpaced, NameSlug}

UpdateRequests ==
  {NoFields}
    \cup {[NoFields EXCEPT !.name = Some(n)] : n \in UpdateNames}
    \cup {[NoFields EXCEPT !.mainContent = Some(c)] : c \in {"docB", "tiny"}}
    \cup {[NoFields EXCEPT !.description = Some("d1"),
                           !.references = Some(RefsB)]}
    \cup {[NoFields EXCEPT !.tags = Some(<<"t1">>)]}
    \cup {[NoFields EXCEPT !.description = Some("")]}

\* parseInt(req.params.id) of a non-numeric path segment
NaNId == -1
isNaN(i) == i = NaNId
IdInputs == (1..MaxSkills) \cup {NaNId}

\* ------------------------------------------------------------------------
\* State
\* ------------------------------------------------------------------------
VARIABLES
  skills,            \* skills table: id -> row
  skill_versions,    \* skill_versions table: set of rows
  skill_usage,       \* skill_usage table: set of rows
  sqlite_sequence,   \* AUTOINCREMENT counters of the three tables
  content_analyses,  \* ids of the rows of content_analyses
  tx,                \* the update transaction in progress, if any
  publishing,        \* publish requests awaiting the code host
  publishCount,      \* publish requests that reached the code host so far
  resp,              \* the last response sent
  nUpdates           \* per stored skill: updates answered "updated successfully"

\* one call of callClaudeWithRetry and the request that made it
VARIABLES
  retryPc,           \* position in callClaudeWithRetry
  maxRetries,        \* its maxRetries argument
  attempt,           \* its loop counter
  lastError,         \* its lastError, None until an attempt has failed
  retryResult,       \* what the call returned or threw, None while it runs
  invocations,       \* service outcomes of the attempts made, in order
  sleeps,            \* durations passed to sleep, in order
  analyzeResp        \* the answer of POST /analyze to a failed call

\* the process-wide rateLimiter and the callers of callClaudeWithRateLimit
VARIABLES
  requests,          \* rateLimiter.requests, each entry as its age now - time
  callerPc,          \* per caller: position in callClaudeWithRateLimit
  timer,             \* per caller: time left on the pending setTimeout
  callerAttempt,     \* per caller: loop counter of callClaudeWithRetry
  waited,            \* per caller: the pending acquire() had to sleep
  waiters,           \* callers inside acquire(), in order of invocation
  grantAges,         \* ages of the slots granted within the last windowMs
  callAges           \* ages of the service calls made within the last windowMs

\* one call of a function of the client or of the packaging code
VARIABLES
  utilCall,          \* the function called and its argument
  utilResult         \* what it returned or threw, None before the call

storeVars == <<skills, skill_versions, skill_usage, sqlite_sequence,
               content_analyses, tx, publishing, publishCount, resp, nUpdates>>

retryVars == <<retryPc, maxRetries, attempt, lastError, retryResult,
               invocations, sleeps, analyzeResp>>

rateVars == <<requests, callerPc, timer, callerAttempt, waited, waiters,
              grantAges, callAges>>

utilVars == <<utilCall, utilResult>>

\* POST /analyze and analyzeContent
VARIABLES
  analysisCache,     \* the Map analysisCache: cache key -> result
  cacheTimers,       \* pending setTimeout deletions: key and due time
  clock,             \* time, in ticks of 15 minutes / CacheTtlTicks
  uuidCount,         \* identifiers handed out by generateUUID so far
  anPc,              \* per request: "idle", "awaiting" the service, "done"
  anBody,            \* per request: the request body
  anStart,           \* per request: the time analyzeContent was called
  anThrown,          \* per request: the error as first thrown, if any
  anOutcome,         \* per request: what analyzeContent returned or threw
  anResp,            \* per request: the response of the route
  anEffects          \* per request: what the call did on its way

analyzeVars == <<analysisCache, cacheTimers, clock, uuidCount, anPc, anBody,
                 anStart, anThrown, anOutcome, anResp, anEffects>>

\* one call of analyzeContentWithRetry
VARIABLES
  wrPc,              \* "idle", "call", "sleep", "returned", "threw"
  wrMaxRetries,      \* the parameter maxRetries
  wrAttempt,         \* the loop variable attempt
  wrLastError,       \* the local lastError
  wrResult,          \* what the call threw, None while it runs
  wrInvocations,     \* per invocation of analyzeContent: None if it
                     \* returned, the error if it threw
  wrSleeps           \* the arguments of sleep, in order

wrapVars == <<wrPc, wrMaxRetries, wrAttempt, wrLastError, wrResult,
              wrInvocations, wrSleeps>>

vars == <<storeVars, retryVars, rateVars, utilVars, analyzeVars, wrapVars>>

NoTx == [stage |-> "none"]
InTx == tx.stage # "none"

Response(op, status) == [op |-> op, status |-> status]
\* no response has been sent for the request in progress
NoResponse == Response("none", 0)

VersionsOf(rows, id) == {r \in rows : r.skill_id = id}
UsageOf(rows, id) == {r \in rows : r.skill_id = id}
Names(tbl) == {tbl[i].name : i \in DOMAIN tbl}

\* no call of callClaudeWithRetry has been made
RetryIdle ==
  /\ retryPc = "idle"
  /\ maxRetries = 0
  /\ attempt = 0
  /\ lastError = None
  /\ retryResult = None
  /\ invocations = <<>>
  /\ sleeps = <<>>
  /\ analyzeResp = None

\* new RateLimiter(...): empty ledger, nobody calling
RateIdle ==
  /\ requests = <<>>
  /\ callerPc = [c \in Callers |-> "idle"]
  /\ timer = [c \in Callers |-> 0]
  /\ callerAttempt = [c \in Callers |-> 0]
  /\ waited = [c \in Callers |-> FALSE]
  /\ waiters = <<>>
  /\ grantAges = <<>>
  /\ callAges = <<>>

\* the tables as the migration creates them, with one stored analysis
StoreInit ==
  /\ skills = <<>>
  /\ skill_versions = {}
  /\ skill_usage = {}
  /\ sqlite_sequence = [skills |-> 0, skill_versions |-> 0, skill_usage |-> 0]
  /\ content_analyses = {"an1"}
  /\ tx = NoTx
  /\ publishing = {}
  /\ publishCount = 0
  /\ resp = NoResponse
  /\ nUpdates = <<>>

\* no function call under study
UtilIdle ==
  /\ utilCall = [fn |-> "none"]
  /\ utilResult = None

AnalyzeIdle ==
  /\ analysisCache = [k \in {} |-> None]
  /\ cacheTimers = {}
  /\ clock = 0
  /\ uuidCount = 0
  /\ anPc = [r \in AnalyzeRequests |-> "idle"]
  /\ anBody = [r \in AnalyzeRequests |-> None]
  /\ anStart = [r \in AnalyzeRequests |-> None]
  /\ anThrown = [r \in AnalyzeRequests |-> None]
  /\ anOutcome = [r \in AnalyzeRequests |-> None]
  /\ anResp = [r \in AnalyzeRequests |-> None]
  /\ anEffects = [r \in AnalyzeRequests |-> {}]

WrapIdle ==
  /\ wrPc = "idle"
  /\ wrMaxRetries = 0
  /\ wrAttempt = 0
  /\ wrLastError = None
  /\ wrResult = None
  /\ wrInvocations = <<>>
  /\ wrSleeps = <<>>

Init ==
  StoreInit /\ RetryIdle /\ RateIdle /\ UtilIdle /\ AnalyzeIdle /\ WrapIdle

\* ------------------------------------------------------------------------
\* Table constraints
\* ------------------------------------------------------------------------
\* variant: the UNIQUE constraint on skills.name is not enforced
UniqueNameNotEnforced(tbl, id, name) == FALSE

\* skills.name UNIQUE: some other row already has this name
UniqueNameViolated(tbl, id, name) ==
  \E j \in DOMAIN tbl : j # id /\ tbl[j].name = name

\* skill_versions UNIQUE(skill_id, version)
UniqueVersionViolated(rows, row) ==
  \E r \in rows : r.skill_id = row.skill_id /\ r.version = row.version

\* the connection enforces foreign keys, so ON DELETE CASCADE acts
ForeignKeysOn == TRUE

\* variant: the child rows are left behind
CascadeDeleteNothing(rows, id) == rows

\* rows left in a child table when skill id is deleted
CascadeDelete(rows, id) ==
  IF ForeignKeysOn THEN {r \in rows : r.skill_id # id} ELSE rows

\* variant: statements are not wrapped in a transaction, so the writes
\* made before the failure stay
AfterAbortKeepsWrites(committed, work) == work

\* what the tables hold after a transaction ends without commit: the
\* transaction's writes are rolled back
AfterAbort(committed, work) == committed

\* ------------------------------------------------------------------------
\* POST /generate-skill
\* ------------------------------------------------------------------------
MsgTooShort == "Skill name must be at least 3 characters"
MsgTooLong == "Skill name must be less than 50 characters"
MsgBadChars ==
  "Skill name must contain only lowercase letters, numbers, and hyphens"
MsgExists == "Skill with this name already exists"
MsgBadType == "Invalid skill type"
MsgUniqueName == "UNIQUE constraint failed: skills.name"
Ok == "ok"

\* GenerateSkillRequestSchema / UpdateSkillRequestSchema: min(3).max(50)
ZodNameOk(name) == Len(name) >= MinNameLen /\ Len(name) <= MaxNameLen

GenerateRequestValid(req) ==
  /\ IsUuid(req.analysisId)
  /\ ZodNameOk(req.skillName)
  /\ req.skillType \in SkillTypes

\* variant: no lookup of an existing skill with the formatted name
validateSkillNameNoLookup(name, tbl) ==
  IF Len(name) < MinNameLen THEN MsgTooShort
  ELSE IF Len(name) > MaxNameLen THEN MsgTooLong
  ELSE IF ~MatchesSlugPattern(formatSkillName(name)) THEN MsgBadChars
  ELSE Ok

\* validateSkillName: Ok, or the message of the error it throws
validateSkillName(name, tbl) ==
  IF Len(name) < MinNameLen THEN MsgTooShort
  ELSE IF Len(name) > MaxNameLen THEN MsgTooLong
  ELSE IF ~MatchesSlugPattern(formatSkillName(name)) THEN MsgBadChars
  ELSE IF formatSkillName(name) \in Names(tbl) THEN MsgExists
  ELSE Ok

validateSkillType(skillType) ==
  IF skillType \in SkillTypes THEN Ok ELSE MsgBadType

\* the row generateSkill hands to saveSkillToDatabase
NewSkillRow(req) ==
  LET skillName == formatSkillName(req.skillName)
      description ==
        IF IsSome(req.description) /\ Val(req.description) # ""
        THEN Val(req.description)
        ELSE generateDescription(req.skillType)
      files == generateSkillFiles(req.skillType, skillName)
  IN [name |-> skillName,
      description |-> description,
      skill_type |-> req.skillType,
      version |-> 1,
      main_content |-> files.main,
      references |-> files.references,
      metadata |->
        [tags |-> IF IsSome(req.tags) THEN Val(req.tags) ELSE <<>>,
         fileCount |-> 1 + Cardinality(DOMAIN files.references),
         totalSize |-> calculateTotalSize(files),
         extractedFrom |-> req.analysisId,
         github |-> NoGithub]]

\* generateSkill up to and including the INSERT: Ok, or the message of the
\* error thrown
generateSkillOutcome(req, tbl) ==
  LET nameCheck == validateSkillName(req.skillName, tbl)
      typeCheck == validateSkillType(req.skillType)
  IN IF nameCheck # Ok THEN nameCheck
     ELSE IF typeCheck # Ok THEN typeCheck
     ELSE IF UniqueNameViolated(tbl, 0, NewSkillRow(req).name)
     THEN MsgUniqueName
     ELSE Ok

\* error.message.includes('already exists'), over the messages above
IncludesAlreadyExists(msg) == msg = MsgExists

\* status the route answers for an error thrown by generateSkill
GenerateErrorStatus(msg) == IF IncludesAlreadyExists(msg) THEN 409 ELSE 500

\* step 6 of generateSkill, await createSkillZip(...): whether
\* zip.generateAsync resolves is decided by the JSZip library, which is not
\* part of the repository
ArchiveOutcomes == {"resolves", "rejects"}

PostGenerateSkill(req) ==
  /\ ~InTx
  /\ IF ~GenerateRequestValid(req)
     THEN /\ resp' = Response("generate", 400)
          /\ UNCHANGED <<skills, sqlite_sequence, nUpdates>>
     ELSE IF req.analysisId \notin content_analyses
     THEN /\ resp' = Response("generate", 404)
          /\ UNCHANGED <<skills, sqlite_sequence, nUpdates>>
     ELSE LET outcome == generateSkillOutcome(req, skills)
              id == sqlite_sequence.skills + 1
          IN IF outcome # Ok
             THEN /\ resp' = Response("generate", GenerateErrorStatus(outcome))
                  /\ UNCHANGED <<skills, sqlite_sequence, nUpdates>>
             ELSE /\ id <= MaxSkills
                  /\ \E archive \in ArchiveOutcomes :
                       resp' = Response("generate",
                                        IF archive = "resolves" THEN 201
                                        ELSE GenerateErrorStatus("zip"))
                  /\ skills' = [i \in DOMAIN skills \cup {id} |->
                                  IF i = id THEN NewSkillRow(req) ELSE skills[i]]
                  /\ sqlite_sequence' = [sqlite_sequence EXCEPT !.skills = id]
                  /\ nUpdates' = [i \in DOMAIN skills \cup {id} |->
                                    IF i = id THEN 0 ELSE nUpdates[i]]
  /\ UNCHANGED <<skill_versions, skill_usage, content_analyses, publishCount,
                 tx, publishing>>

\* ------------------------------------------------------------------------
\* PUT /skills/:id
\* ------------------------------------------------------------------------
UpdateRequestValid(req) ==
  /\ IsSome(req.name) => ZodNameOk(Val(req.name))
  /\ IsSome(req.mainContent) => ContentLen(Val(req.mainContent)) >= MinContentLen

\* if (validatedData.x): the field is supplied and its value is truthy
TruthyName(o) == IsSome(o) /\ Val(o) # <<>>
TruthyString(o) == IsSome(o) /\ Val(o) # ""
TruthyObject(o) == IsSome(o)

\* variant: the snapshot is numbered with the version being created
SnapshotRowNextVersion(rowid, id, cur) ==
  [id |-> rowid,
   skill_id |-> id,
   version |-> cur.version + 1,
   main_content |-> cur.main_content,
   references |-> cur.references,
   metadata |-> cur.metadata]

\* variant: the snapshot misses what publish wrote into the metadata
SnapshotRowStaleMetadata(rowid, id, cur) ==
  [id |-> rowid,
   skill_id |-> id,
   version |-> cur.version,
   main_content |-> cur.main_content,
   references |-> cur.references,
   metadata |-> [cur.metadata EXCEPT !.github = NoGithub]]

\* the row written to skill_versions for the current row cur of skill id
SnapshotRow(rowid, id, cur) ==
  [id |-> rowid,
   skill_id |-> id,
   version |-> cur.version,
   main_content |-> cur.main_content,
   references |-> cur.references,
   metadata |-> cur.metadata]

\* variant: INSERT OR REPLACE keyed on the skill: the new snapshot
\* overwrites the skill's history
InsertVersionRowReplacing(rows, row) ==
  {r \in rows : r.skill_id # row.skill_id} \cup {row}

\* INSERT INTO skill_versions
InsertVersionRow(rows, row) == rows \cup {row}

\* variant: the UPDATE forgets the version increment
NextVersionStuck(v) == v

\* version = version + 1
NextVersion(v) == v + 1

\* UPDATE skills SET <supplied fields>, version = version + 1 applied to the
\* row cur; currentMeta is the metadata read at the start of the transaction
UpdatedRow(cur, currentMeta, req) ==
  [cur EXCEPT
     !.name = IF TruthyName(req.name) THEN Val(req.name) ELSE @,
     !.description =
       IF TruthyString(req.description) THEN Val(req.description) ELSE @,
     !.main_content =
       IF TruthyString(req.mainContent) THEN Val(req.mainContent) ELSE @,
     !.references =
       IF TruthyObject(req.references) THEN Val(req.references) ELSE @,
     !.metadata =
       IF TruthyObject(req.tags)
       THEN [currentMeta EXCEPT !.tags = Val(req.tags)]
       ELSE @,
     !.version = NextVersion(@)]

Committed ==
  [skills |-> skills, skill_versions |-> skill_versions,
   sqlite_sequence |-> sqlite_sequence]

\* the transaction ends without commit and the handler answers status
AbortTx(status) ==
  LET after == AfterAbort(Committed, tx.work)
  IN /\ skills' = after.skills
     /\ skill_versions' = after.skill_versions
     /\ sqlite_sequence' = after.sqlite_sequence
     /\ tx' = NoTx
     /\ resp' = Response("update", status)
     /\ UNCHANGED <<skill_usage, content_analyses, publishCount, publishing, nUpdates>>

\* the handler up to and including the first statements of the transaction:
\* SELECT the current row, INSERT INTO skill_versions
PutSkill(id, req) ==
  /\ ~InTx
  /\ IF isNaN(id) \/ ~UpdateRequestValid(req) \/ id \notin DOMAIN skills
     THEN /\ resp' = Response("update",
                              IF isNaN(id) \/ ~UpdateRequestValid(req)
                              THEN 400 ELSE 404)
          /\ UNCHANGED <<skills, skill_versions, skill_usage, sqlite_sequence,
                         content_analyses, publishCount, tx, publishing, nUpdates>>
     ELSE LET cur == skills[id]
              rowid == sqlite_sequence.skill_versions + 1
              row == SnapshotRow(rowid, id, cur)
          IN /\ rowid <= MaxSnapshots
             /\ IF UniqueVersionViolated(skill_versions, row)
                THEN /\ resp' = Response("update", 500)
                     /\ UNCHANGED <<skills, skill_versions, skill_usage,
                                    sqlite_sequence, content_analyses, publishCount, tx,
                                    publishing, nUpdates>>
                ELSE /\ tx' =
                          [stage |-> "snapshotted", skillId |-> id,
                           req |-> req, currentSkill |-> cur,
                           work |->
                             [skills |-> skills,
                              skill_versions |->
                                InsertVersionRow(skill_versions, row),
                              sqlite_sequence |->
                                [sqlite_sequence EXCEPT
                                   !.skill_versions = rowid]]]
                     /\ resp' = NoResponse
                     /\ UNCHANGED <<skills, skill_versions, skill_usage,
                                    sqlite_sequence, content_analyses, publishCount,
                                    publishing, nUpdates>>

\* UPDATE skills SET ... WHERE id = ?
TxUpdate ==
  /\ tx.stage = "snapshotted"
  /\ LET cur == tx.work.skills[tx.skillId]
         new == UpdatedRow(cur, tx.currentSkill.metadata, tx.req)
     IN IF UniqueNameViolated(tx.work.skills, tx.skillId, new.name)
        THEN AbortTx(500)
        ELSE /\ tx' = [tx EXCEPT !.stage = "updated", !.req = NoFields,
                                 !.work.skills[tx.skillId] = new]
             /\ UNCHANGED <<skills, skill_versions, skill_usage,
                            sqlite_sequence, content_analyses, publishCount, publishing,
                            resp, nUpdates>>

\* SELECT version, commit, answer 'Skill updated successfully'
TxCommit ==
  /\ tx.stage = "updated"
  /\ skills' = tx.work.skills
  /\ skill_versions' = tx.work.skill_versions
  /\ sqlite_sequence' = tx.work.sqlite_sequence
  /\ tx' = NoTx
  /\ nUpdates' = [nUpdates EXCEPT ![tx.skillId] = @ + 1]
  /\ resp' = Response("update", 200)
  /\ UNCHANGED <<skill_usage, content_analyses, publishCount, publishing>>

\* ------------------------------------------------------------------------
\* DELETE /skills/:id
\* ------------------------------------------------------------------------
DeleteSkill(id) ==
  /\ ~InTx
  /\ UNCHANGED <<sqlite_sequence, content_analyses, publishCount, tx, publishing>>
  /\ IF isNaN(id)
     THEN /\ resp' = Response("delete", 400)
          /\ UNCHANGED <<skills, skill_versions, skill_usage, nUpdates>>
     ELSE IF id \notin DOMAIN skills
     THEN /\ resp' = Response("delete", 404)
          /\ UNCHANGED <<skills, skill_versions, skill_usage, nUpdates>>
     ELSE /\ skills' = [i \in DOMAIN skills \ {id} |-> skills[i]]
          /\ skill_versions' = CascadeDelete(skill_versions, id)
          /\ skill_usage' = CascadeDelete(skill_usage, id)
          /\ nUpdates' = [i \in DOMAIN skills \ {id} |-> nUpdates[i]]
          /\ resp' = Response("delete", 200)

\* ------------------------------------------------------------------------
\* POST /skills/:id/publish
\* ------------------------------------------------------------------------
GithubInfo == "published"

PublishOutcomes == {"ok", "already exists", "authentication", "api error"}

PublishErrorStatus(outcome) ==
  CASE outcome = "already exists" -> 409
    [] outcome = "authentication" -> 401
    [] OTHER -> 500

\* the handler up to the await of publishSkillToGitHub
PublishStart(id, hasToken) ==
  /\ ~InTx
  /\ UNCHANGED <<skills, skill_versions, skill_usage, sqlite_sequence,
                 content_analyses, tx, nUpdates>>
  /\ IF isNaN(id)
     THEN resp' = Response("publish", 400)
          /\ UNCHANGED <<publishing, publishCount>>
     ELSE IF ~hasToken
     THEN resp' = Response("publish", 401)
          /\ UNCHANGED <<publishing, publishCount>>
     ELSE IF id \notin DOMAIN skills
     THEN resp' = Response("publish", 404)
          /\ UNCHANGED <<publishing, publishCount>>
     ELSE /\ publishCount < MaxPublish
          /\ [skillId |-> id, metadata |-> skills[id].metadata] \notin publishing
          /\ publishing' =
               publishing \cup {[skillId |-> id, metadata |-> skills[id].metadata]}
          /\ publishCount' = publishCount + 1
          /\ resp' = NoResponse

\* the handler after the await: UPDATE skills SET metadata = ? WHERE id = ?
PublishFinish(p, outcome) ==
  /\ ~InTx
  /\ p \in publishing
  /\ publishing' = publishing \ {p}
  /\ UNCHANGED <<skill_versions, skill_usage, sqlite_sequence,
                 content_analyses, publishCount, tx, nUpdates>>
  /\ IF outcome = "ok"
     THEN /\ skills' =
               [i \in DOMAIN skills |->
                  IF i = p.skillId
                  THEN [skills[i] EXCEPT
                          !.metadata = [p.metadata EXCEPT !.github = GithubInfo]]
                  ELSE skills[i]]
          /\ resp' = Response("publish", 200)
     ELSE /\ skills' = skills
          /\ resp' = Response("publish", PublishErrorStatus(outcome))

\* ------------------------------------------------------------------------
\* skill_usage rows and process stop
\* ------------------------------------------------------------------------
\* a usage row is inserted for a stored skill (the foreign key requires it)
RecordUsage(id) ==
  /\ ~InTx
  /\ id \in DOMAIN skills
  /\ sqlite_sequence.skill_usage < MaxUsage
  /\ skill_usage' = skill_usage \cup
       {[id |-> sqlite_sequence.skill_usage + 1, skill_id |-> id]}
  /\ sqlite_sequence' =
       [sqlite_sequence EXCEPT !.skill_usage = @ + 1]
  /\ resp' = NoResponse
  /\ UNCHANGED <<skills, skill_versions, content_analyses, publishCount, tx, publishing,
                 nUpdates>>

\* the process stops while requests are in progress: the open transaction
\* is rolled back by the journal, requests awaiting the code host are lost
Crash ==
  /\ InTx \/ publishing # {}
  /\ IF InTx
     THEN LET after == AfterAbort(Committed, tx.work)
          IN /\ skills' = after.skills
             /\ skill_versions' = after.skill_versions
             /\ sqlite_sequence' = after.sqlite_sequence
     ELSE UNCHANGED <<skills, skill_versions, sqlite_sequence>>
  /\ tx' = NoTx
  /\ publishing' = {}
  /\ resp' = NoResponse
  /\ UNCHANGED <<skill_usage, content_analyses, publishCount, nUpdates>>

\* the skills routes; the analysis client is not involved
ClientUnchanged == UNCHANGED <<retryVars, rateVars, utilVars, analyzeVars, wrapVars>>

Next ==
  \/ \E req \in GenerateRequests : PostGenerateSkill(req) /\ ClientUnchanged
  \/ \E id \in IdInputs, req \in UpdateRequests :
       PutSkill(id, req) /\ ClientUnchanged
  \/ TxUpdate /\ ClientUnchanged
  \/ TxCommit /\ ClientUnchanged
  \/ \E id \in IdInputs : DeleteSkill(id) /\ ClientUnchanged
  \/ \E id \in IdInputs, hasToken \in BOOLEAN :
       PublishStart(id, hasToken) /\ ClientUnchanged
  \/ \E p \in publishing, outcome \in PublishOutcomes :
       PublishFinish(p, outcome) /\ ClientUnchanged
  \/ \E id \in 1..MaxSkills : RecordUsage(id) /\ ClientUnchanged
  \/ Crash /\ ClientUnchanged

Spec == Init /\ [][Next]_vars

\* ------------------------------------------------------------------------
\* Properties of the versioned store
\* ------------------------------------------------------------------------
StoreTables == <<skills, skill_versions, skill_usage, sqlite_sequence>>

\* C11: a successful update sets every supplied field (name, description,
\* mainContent, references, tags) to the supplied value, a supplied empty
\* value included, leaves the fields not supplied unchanged, changes
\* nothing else but version (and the modification timestamp), and a tags
\* update keeps the other metadata keys.
C11_UpdateSetsSuppliedFields ==
  [][(tx.stage = "snapshotted" /\ tx'.stage = "updated")
     => LET req == tx.req
            old == tx.work.skills[tx.skillId]
            new == tx'.work.skills[tx.skillId]
        IN new =
             [old EXCEPT
                !.name = IF IsSome(req.name) THEN Val(req.name) ELSE @,
                !.description =
                  IF IsSome(req.description) THEN Val(req.description) ELSE @,
                !.main_content =
                  IF IsSome(req.mainContent) THEN Val(req.mainContent) ELSE @,
                !.references =
                  IF IsSome(req.references) THEN Val(req.references) ELSE @,
                !.metadata =
                  IF IsSome(req.tags)
                  THEN [@ EXCEPT !.tags = Val(req.tags)] ELSE @,
                !.version = @ + 1]]_vars

\* C1: in every reachable state each stored skill's version equals 1 plus
\* the number of skill_versions rows that reference it.
C1_VersionCountsSnapshots ==
  \A id \in DOMAIN skills :
    skills[id].version = 1 + Cardinality(VersionsOf(skill_versions, id))

\* a skill updated twice and published, after another skill was deleted
C1_Witness ==
  \E id \in DOMAIN skills :
    /\ skills[id].version = 3
    /\ skills[id].metadata.github # NoGithub
    /\ sqlite_sequence.skills > Cardinality(DOMAIN skills)

\* C2: after N successful updates of a skill its live row has version 1+N
\* and exactly N snapshot rows exist for it, carrying the versions 1..N.
C2_UpdatesGiveGapFreeHistory ==
  \A id \in DOMAIN skills :
    LET snaps == VersionsOf(skill_versions, id)
    IN /\ skills[id].version = 1 + nUpdates[id]
       /\ Cardinality(snaps) = nUpdates[id]
       /\ {r.version : r \in snaps} = 1..nUpdates[id]

\* two updates of one skill were answered with success
C2_Witness ==
  \E id \in DOMAIN skills :
    /\ nUpdates[id] = 2
    /\ {r.version : r \in VersionsOf(skill_versions, id)} = {1, 2}

NoTornUpdate ==
  /\ \A id \in DOMAIN skills :
       skills[id].version > 1 =>
         \E r \in VersionsOf(skill_versions, id) :
           r.version = skills[id].version - 1
  /\ \A r1, r2 \in skill_versions :
       (r1.skill_id = r2.skill_id /\ r1.version = r2.version) => r1 = r2

\* C3: an update that fails, or is cut short by a process stop between its
\* statements, leaves the skill rows and the snapshot rows as they were; no
\* stored skill is at version N without a snapshot of version N-1 and no two
\* snapshots of a skill carry the same version.
C3_UpdateAllOrNothing ==
  [][/\ ((resp'.op = "update" /\ resp'.status # 200)
           \/ (InTx /\ ~InTx' /\ resp'.status # 200))
        => (skills' = skills /\ skill_versions' = skill_versions
            /\ sqlite_sequence' = sqlite_sequence)
     /\ NoTornUpdate']_vars

\* a rename was refused by the UNIQUE constraint inside the transaction of a
\* skill that already has history
C3_Witness ==
  /\ resp = Response("update", 500)
  /\ \E id \in DOMAIN skills : skills[id].version >= 2

\* C4: main document, references and metadata of a stored skill change only
\* in an update, which increments the version.
C4_ContentChangesOnlyByUpdate ==
  [][\A id \in DOMAIN skills \cap DOMAIN skills' :
       (\/ skills'[id].main_content # skills[id].main_content
        \/ skills'[id].references # skills[id].references
        \/ skills'[id].metadata # skills[id].metadata)
       => (/\ skills'[id].version = skills[id].version + 1
           /\ resp' = Response("update", 200))]_vars

\* C5: a snapshot row, once written, stays as it is; it disappears only in
\* the step that deletes its parent skill.
C5_SnapshotsAppendOnly ==
  [][\A r \in skill_versions :
       \/ r \in skill_versions'
       \/ (r.skill_id \in DOMAIN skills /\ r.skill_id \notin DOMAIN skills')]_vars

\* snapshot 1 of a skill is still there after a second update of it, and
\* another skill has been deleted meanwhile
C5_Witness ==
  \E r \in skill_versions :
    /\ r.version = 1
    /\ r.skill_id \in DOMAIN skills
    /\ skills[r.skill_id].version = 3
    /\ sqlite_sequence.skills > Cardinality(DOMAIN skills)

\* C6: the update that takes a skill from version k to k+1 writes a snapshot
\* with version k and the main document, references and metadata the live
\* row held just before.
C6_SnapshotIsPriorRow ==
  [][\A id \in DOMAIN skills \cap DOMAIN skills' :
       skills'[id].version = skills[id].version + 1 =>
         \E r \in skill_versions' \ skill_versions :
           /\ r.skill_id = id
           /\ r.version = skills[id].version
           /\ r.main_content = skills[id].main_content
           /\ r.references = skills[id].references
           /\ r.metadata = skills[id].metadata]_vars

\* a snapshot carries metadata written by publish before the update
C6_Witness ==
  \E r \in skill_versions : r.metadata.github # NoGithub

\* C7: no two stored skills have the same name.
C7_NamesUnique ==
  \A i, j \in DOMAIN skills : i # j => skills[i].name # skills[j].name

\* two skills are stored and a rename of one to the other's name was refused
C7_Witness ==
  /\ Cardinality(DOMAIN skills) = 2
  /\ resp = Response("update", 500)
  /\ \E i \in DOMAIN skills : skills[i].name = NameSlug

\* C8: the name of every stored skill is a normalized slug.
C8_NamesAreSlugs ==
  \A id \in DOMAIN skills : MatchesSlugPattern(skills[id].name)

\* formatSkillName of every name a create request carries
FormattedRawNames == [n \in RawNames |-> formatSkillName(n)]

NameConflict(req) == FormattedRawNames[req.skillName] \in Names(skills)

\* C9 as stated: a create whose normalized name is taken answers 409 and
\* changes nothing.
C9_ConflictAlways409 ==
  [][\A req \in GenerateRequests :
       (resp'.op = "generate" /\ NameConflict(req) /\ PostGenerateSkill(req))
       => (resp'.status = 409 /\ UNCHANGED StoreTables)]_vars

\* C9 amended: a create whose normalized name is taken changes nothing; it
\* answers 409 when the request passes request validation and its analysis
\* is stored, 400 when it fails request validation, 404 when the analysis is
\* not stored.
C9_ConflictIs409WhenValid ==
  [][\A req \in GenerateRequests :
       (resp'.op = "generate" /\ NameConflict(req) /\ PostGenerateSkill(req))
       => /\ UNCHANGED StoreTables
          /\ resp'.status =
               IF ~GenerateRequestValid(req) THEN 400
               ELSE IF req.analysisId \notin content_analyses THEN 404
               ELSE 409]_vars

\* a create was refused with 409 while the only stored skill has history
C9_Witness ==
  /\ resp = Response("generate", 409)
  /\ \E id \in DOMAIN skills :
       DOMAIN skills = {id} /\ skills[id].version >= 2

\* C10: the step that deletes a skill leaves no snapshot row and no usage
\* row of that skill, and leaves every other skill's row, snapshots and
\* usage rows as they were.
C10_DeleteCascades ==
  [][\A id \in DOMAIN skills :
       id \notin DOMAIN skills' =>
         /\ VersionsOf(skill_versions', id) = {}
         /\ UsageOf(skill_usage', id) = {}
         /\ \A j \in DOMAIN skills \ {id} :
              /\ j \in DOMAIN skills'
              /\ skills'[j] = skills[j]
              /\ VersionsOf(skill_versions', j) = VersionsOf(skill_versions, j)
              /\ UsageOf(skill_usage', j) = UsageOf(skill_usage, j)]_vars

\* a delete removed a skill with a snapshot and a usage row while another
\* skill with a snapshot stays
C10_Witness ==
  /\ resp = Response("delete", 200)
  /\ sqlite_sequence.skill_versions = 2
  /\ Cardinality(skill_versions) = 1
  /\ sqlite_sequence.skill_usage = 1
  /\ skill_usage = {}
  /\ \E r \in skill_versions : r.skill_id \in DOMAIN skills

\* ------------------------------------------------------------------------
\* Claude client: callClaudeAPI
\* ------------------------------------------------------------------------
\* what client.messages.create does: it resolves with a text, or rejects
\* with an error that may carry a status, a code and a retry-after header
\* (a missing status is 0, a missing code is "")
Resolved(text) ==
  [kind |-> "ok", text |-> text, status |-> 0, code |-> "",
   retryAfterHeader |-> None]
Rejected(status, code, header) ==
  [kind |-> "error", text |-> "", status |-> status, code |-> code,
   retryAfterHeader |-> header]

ServiceOutcomes ==
  {Resolved("text1"), Resolved("text2")}
    \cup {Rejected(429, "", h) : h \in {None, Some("30"), Some("5")}}
    \cup {Rejected(401, "", None), Rejected(400, "", None),
          Rejected(503, "", None), Rejected(404, "", None),
          Rejected(0, "ETIMEDOUT", None), Rejected(0, "ECONNRESET", None)}

\* the number 60 the code falls back to, as it is printed
DefaultRetryAfter == "60"

\* x || 60 on an optional header text
OrDefault(o) == IF IsSome(o) /\ Val(o) # "" THEN Val(o) ELSE DefaultRetryAfter

ClaudeAPIError(code, status, retryable) ==
  [name |-> "ClaudeAPIError", code |-> code, status |-> status,
   retryable |-> retryable, retryAfter |-> None]
AnalysisError ==
  [name |-> "AnalysisError", code |-> "ANALYSIS_ERROR", status |-> 0,
   retryable |-> FALSE, retryAfter |-> None]
RateLimitError(retryAfter) ==
  [name |-> "RateLimitError", code |-> "RATE_LIMIT", status |-> 429,
   retryable |-> TRUE, retryAfter |-> Some(OrDefault(Some(retryAfter)))]
ServiceError(retryable) ==
  [name |-> "ServiceError", code |-> "SERVER_ERROR", status |-> 500,
   retryable |-> retryable, retryAfter |-> None]

Returned(text) == [threw |-> FALSE, value |-> text]
Threw(error) == [threw |-> TRUE, value |-> error]

\* variant: a network timeout is classified as not retryable
callClaudeAPITimeoutFatal(o) ==
  IF o.kind = "ok" THEN Returned(o.text)
  ELSE IF o.status = 429
    THEN Threw(RateLimitError(OrDefault(o.retryAfterHeader)))
  ELSE IF o.status = 401
    THEN Threw(ClaudeAPIError("AUTH_ERROR", 401, FALSE))
  ELSE IF o.status >= 500
    THEN Threw(ServiceError(TRUE))
  ELSE IF o.status = 400
    THEN Threw(ClaudeAPIError("INVALID_REQUEST", 400, FALSE))
  ELSE IF o.code = "ETIMEDOUT" \/ o.code = "ECONNRESET"
    THEN Threw(ClaudeAPIError("TIMEOUT", 0, FALSE))
  ELSE Threw(ClaudeAPIError("UNKNOWN", o.status, FALSE))

\* callClaudeAPI applied to what the service did
callClaudeAPI(o) ==
  IF o.kind = "ok" THEN Returned(o.text)
  ELSE IF o.status = 429
    THEN Threw(RateLimitError(OrDefault(o.retryAfterHeader)))
  ELSE IF o.status = 401
    THEN Threw(ClaudeAPIError("AUTH_ERROR", 401, FALSE))
  ELSE IF o.status >= 500
    THEN Threw(ServiceError(TRUE))
  ELSE IF o.status = 400
    THEN Threw(ClaudeAPIError("INVALID_REQUEST", 400, FALSE))
  ELSE IF o.code = "ETIMEDOUT" \/ o.code = "ECONNRESET"
    THEN Threw(ClaudeAPIError("TIMEOUT", 0, TRUE))
  ELSE Threw(ClaudeAPIError("UNKNOWN", o.status, FALSE))

\* ------------------------------------------------------------------------
\* Claude client: callClaudeWithRetry, and the answer of POST /analyze
\* ------------------------------------------------------------------------
Min(a, b) == IF a <= b THEN a ELSE b

\* variant: the exponential delay is not capped
backoffMsUncapped(a) == (2 ^ a) * BackoffBaseMs

\* Math.min(Math.pow(2, attempt) * 1000, 30000)
backoffMs(a) == Min((2 ^ a) * BackoffBaseMs, BackoffCapMs)

\* variant: the loop stops one round early
LoopContinuesStrict(a, m) == a < m

\* attempt <= maxRetries
LoopContinues(a, m) == a <= m

\* variant: a non-retryable error is treated like any other
MustRethrowNever(error) == FALSE

\* if (!error.retryable) throw error
MustRethrow(error) == ~error.retryable

\* variant: only the first error is remembered
RecordErrorFirstOnly(prev, error) == IF IsSome(prev) THEN prev ELSE Some(error)

\* lastError = error
RecordError(prev, error) == Some(error)

MaxRetriesInputs == 1..MaxRetriesBound

\* throw lastError after the loop
ThrowLastError(last) ==
  /\ retryPc' = "threw"
  /\ retryResult' = last

\* callClaudeWithRetry(prompt, options, m) up to the first await
StartRetry(m) ==
  /\ retryPc = "idle"
  /\ maxRetries' = m
  /\ attempt' = 1
  /\ IF LoopContinues(1, m)
     THEN retryPc' = "call" /\ UNCHANGED retryResult
     ELSE ThrowLastError(lastError)
  /\ UNCHANGED <<lastError, invocations, sleeps, analyzeResp>>

\* await callClaudeAPI settles after the service did o: return, or the
\* catch block up to throw, break or await sleep
Attempt(o) ==
  /\ retryPc = "call"
  /\ invocations' = Append(invocations, o)
  /\ LET r == callClaudeAPI(o)
     IN IF ~r.threw
        THEN /\ retryPc' = "returned"
             /\ retryResult' = Some(r.value)
             /\ UNCHANGED <<lastError, sleeps>>
        ELSE /\ lastError' = RecordError(lastError, r.value)
             /\ IF MustRethrow(r.value)
                THEN /\ retryPc' = "threw"
                     /\ retryResult' = Some(r.value)
                     /\ UNCHANGED sleeps
                ELSE IF attempt = maxRetries
                THEN /\ ThrowLastError(lastError')
                     /\ UNCHANGED sleeps
                ELSE /\ sleeps' = Append(sleeps, backoffMs(attempt))
                     /\ retryPc' = "sleep"
                     /\ UNCHANGED retryResult
  /\ UNCHANGED <<maxRetries, attempt, analyzeResp>>

\* the sleep is over: attempt++ and the loop test
SleepDone ==
  /\ retryPc = "sleep"
  /\ attempt' = attempt + 1
  /\ IF LoopContinues(attempt', maxRetries)
     THEN retryPc' = "call" /\ UNCHANGED retryResult
     ELSE ThrowLastError(lastError)
  /\ UNCHANGED <<maxRetries, lastError, invocations, sleeps, analyzeResp>>

\* the outer catch of analyzeContent: the three known classes pass, any
\* other error is wrapped
analyzeContentCatch(error) ==
  IF error.name \in {"AnalysisError", "RateLimitError", "ServiceError"}
  THEN error
  ELSE AnalysisError

\* the catch of router.post('/analyze') for an error that is not a ZodError
AnalyzeErrorResponse(error) ==
  IF error.code = "RATE_LIMIT"
  THEN [status |-> 429, retryAfter |-> Some(OrDefault(error.retryAfter)),
        retryable |-> None]
  ELSE IF error.code = "ANALYSIS_ERROR"
  THEN [status |-> 400, retryAfter |-> None, retryable |-> Some(FALSE)]
  ELSE [status |-> 500, retryAfter |-> None,
        retryable |-> Some(error.retryable)]

\* POST /analyze whose call, made through callClaudeWithRateLimit with the
\* default maxRetries, threw: the error travels up and is answered
AnalyzeFails ==
  /\ retryPc = "threw"
  /\ maxRetries = DefaultMaxRetries
  /\ analyzeResp = None
  /\ analyzeResp' =
       Some(AnalyzeErrorResponse(analyzeContentCatch(Val(retryResult))))
  /\ UNCHANGED <<retryPc, maxRetries, attempt, lastError, retryResult,
                 invocations, sleeps>>

RetryNext ==
  \/ \E m \in MaxRetriesInputs : StartRetry(m) /\ UNCHANGED <<storeVars, rateVars, utilVars, analyzeVars, wrapVars>>
  \/ \E o \in ServiceOutcomes : Attempt(o) /\ UNCHANGED <<storeVars, rateVars, utilVars, analyzeVars, wrapVars>>
  \/ SleepDone /\ UNCHANGED <<storeVars, rateVars, utilVars, analyzeVars, wrapVars>>
  \/ AnalyzeFails /\ UNCHANGED <<storeVars, rateVars, utilVars, analyzeVars, wrapVars>>

RetrySpec == Init /\ [][RetryNext]_vars

\* the API call settles and the timer fires
FairRetrySpec ==
  /\ RetrySpec
  /\ WF_vars(\E o \in ServiceOutcomes : Attempt(o) /\ UNCHANGED <<storeVars, rateVars, utilVars, analyzeVars, wrapVars>>)
  /\ WF_vars(SleepDone /\ UNCHANGED <<storeVars, rateVars, utilVars, analyzeVars, wrapVars>>)

\* ------------------------------------------------------------------------
\* Properties of the retry policy
\* ------------------------------------------------------------------------
RetryDone == retryPc \in {"returned", "threw"}

Failed(o) == o.kind = "error"

\* C16: one call of callClaudeWithRetry invokes the network operation at
\* least once and at most maxRetries times, and always ends, either
\* returning the result of the first attempt that succeeded or throwing an
\* error.
C16_BoundedAttemptsAndTermination ==
  /\ [](/\ Len(invocations) <= maxRetries
        /\ RetryDone => Len(invocations) >= 1
        /\ \A i \in 1..(Len(invocations) - 1) : Failed(invocations[i])
        /\ retryPc = "returned" =>
             /\ ~Failed(invocations[Len(invocations)])
             /\ retryResult = Some(invocations[Len(invocations)].text)
        /\ retryPc = "threw" =>
             /\ Failed(invocations[Len(invocations)])
             /\ IsSome(retryResult))
  /\ (retryPc = "call") ~> RetryDone

\* three attempts were made, all failed, and the call ended by throwing
C16_Witness ==
  /\ retryPc = "threw"
  /\ maxRetries = 3
  /\ Len(invocations) = 3

\* authentication failure, malformed request, or an error that is neither a
\* 429, a 5xx nor a network timeout or reset
NonRetryable(o) ==
  /\ Failed(o)
  /\ \/ o.status \in {400, 401}
     \/ /\ o.status # 429
        /\ o.status < 500
        /\ o.code \notin {"ETIMEDOUT", "ECONNRESET"}

\* C17: an attempt that fails with a non-retryable error ends the call at
\* once with that error: no sleep is requested by that step, and once the
\* call has thrown no further attempt or sleep follows.
C17_NonRetryableSurfacesAtOnce ==
  [][/\ (retryPc = "call" /\ Len(invocations') = Len(invocations) + 1
           /\ NonRetryable(invocations'[Len(invocations')]))
        => /\ retryPc' = "threw"
           /\ sleeps' = sleeps
           /\ IsSome(retryResult')
           /\ Val(retryResult').status = invocations'[Len(invocations')].status
           /\ ~Val(retryResult').retryable
     /\ retryPc = "threw"
        => (retryPc' = "threw" /\ invocations' = invocations
              /\ sleeps' = sleeps /\ retryResult' = retryResult)]_vars

\* the second of six allowed attempts was refused as unauthenticated
C17_Witness ==
  /\ retryPc = "threw"
  /\ maxRetries = 6
  /\ Len(invocations) = 2
  /\ invocations[2].status = 401
  /\ Len(sleeps) = 1

\* C18: with the default maxRetries, after 429 answers to the first three
\* attempts the call goes on to a fourth attempt (whose success is then
\* returned) instead of failing.
C18_FourthAttemptAfterThree429 ==
  (/\ maxRetries = DefaultMaxRetries
   /\ Len(invocations) = 3
   /\ \A i \in 1..3 : invocations[i].status = 429)
  => retryPc # "threw"

AllRetryableFailures ==
  /\ invocations # <<>>
  /\ \A i \in DOMAIN invocations :
       Failed(invocations[i]) /\ ~NonRetryable(invocations[i])

All429 ==
  /\ invocations # <<>>
  /\ \A i \in DOMAIN invocations : invocations[i].status = 429

LastInvocation == invocations[Len(invocations)]

\* C19: when every attempt failed with a retryable error the call throws
\* the error of the last attempt; if all were 429 it is a RateLimitError
\* with the retry-after of the last 429 (60 if that one carried none), and
\* POST /analyze answers 429 with the same retry-after.
C19_LastErrorSurfaces ==
  /\ (retryPc = "threw" /\ AllRetryableFailures) =>
       LET e == Val(retryResult)
           o == LastInvocation
       IN /\ Len(invocations) = maxRetries
          /\ e.retryable
          /\ (o.status = 429) <=> (e.name = "RateLimitError")
          /\ (o.status >= 500) <=> (e.code = "SERVER_ERROR")
          /\ (o.code \in {"ETIMEDOUT", "ECONNRESET"}) <=> (e.code = "TIMEOUT")
          /\ o.status = 429 =>
               e.retryAfter =
                 IF IsSome(o.retryAfterHeader) THEN o.retryAfterHeader
                 ELSE Some(DefaultRetryAfter)
  /\ (IsSome(analyzeResp) /\ All429) =>
       /\ Val(analyzeResp).status = 429
       /\ Val(analyzeResp).retryAfter =
            IF IsSome(LastInvocation.retryAfterHeader)
            THEN LastInvocation.retryAfterHeader
            ELSE Some(DefaultRetryAfter)

\* three 429 answers with retry-after 30, then none, then 5, answered 429
\* with retry-after 5 by POST /analyze
C19_Witness ==
  /\ IsSome(analyzeResp)
  /\ Len(invocations) = 3
  /\ All429
  /\ invocations[1].retryAfterHeader = Some("30")
  /\ invocations[2].retryAfterHeader = None
  /\ invocations[3].retryAfterHeader = Some("5")
  /\ Val(analyzeResp).retryAfter = Some("5")

\* C20: the sleep requested after failed retryable attempt a is
\* min(2^a * 1000, 30000) ms, and there is exactly one sleep between
\* consecutive attempts: none after the last attempt or after a success.
C20_BackoffDelays ==
  /\ \A a \in DOMAIN sleeps :
       sleeps[a] = IF (2 ^ a) * 1000 <= 30000 THEN (2 ^ a) * 1000 ELSE 30000
  /\ Len(sleeps) = Len(invocations) - (IF RetryDone THEN 1 ELSE 0)

\* six attempts, the sixth successful, after sleeps of 2, 4, 8, 16 and 30 s
C20_Witness ==
  /\ retryPc = "returned"
  /\ sleeps = <<2000, 4000, 8000, 16000, 30000>>

\* ------------------------------------------------------------------------
\* Claude client: RateLimiter and callClaudeWithRateLimit
\* ------------------------------------------------------------------------
\* A timestamp is kept as its age now - time; ages stop growing at
\* windowMs, from where on the filter of acquire() drops the entry.
maxRequests == LimiterMaxRequests
windowMs == LimiterWindowTicks * TickMs

RECURSIVE SeqMax(_)
SeqMax(ages) ==
  IF ages = <<>> THEN 0
  ELSE LET m == SeqMax(Tail(ages))
       IN IF Head(ages) >= m THEN Head(ages) ELSE m

\* this.requests.filter(time => now - time < this.windowMs)
InWindow(ages) == SelectSeq(ages, LAMBDA a : a < windowMs)

\* variant: one request more than maxRequests is let through
AtLimitOffByOne(reqs) == Len(reqs) > maxRequests

\* this.requests.length >= this.maxRequests
AtLimit(reqs) == Len(reqs) >= maxRequests

\* this.windowMs - (now - Math.min(...this.requests))
waitTime(reqs) == windowMs - SeqMax(reqs)

RemoveCaller(q, c) == SelectSeq(q, LAMBDA x : x # c)

\* the body of acquire() run by caller c: it is synchronous up to
\* await sleep(waitTime) or up to its return
acquire(c) ==
  LET kept == InWindow(requests)
  IN IF AtLimit(kept)
     THEN /\ requests' = kept
          /\ callerPc' = [callerPc EXCEPT ![c] = "waiting"]
          /\ timer' = [timer EXCEPT ![c] = waitTime(kept)]
          /\ waited' = [waited EXCEPT ![c] = TRUE]
          /\ waiters' = IF waited[c] THEN waiters ELSE Append(waiters, c)
          /\ UNCHANGED <<callerAttempt, grantAges, callAges>>
     ELSE /\ requests' = Append(kept, 0)
          /\ callerPc' = [callerPc EXCEPT ![c] = "call"]
          /\ callerAttempt' = [callerAttempt EXCEPT ![c] = 1]
          /\ waiters' = RemoveCaller(waiters, c)
          /\ grantAges' = Append(grantAges, 0)
          /\ UNCHANGED <<timer, waited, callAges>>

\* callClaudeWithRateLimit: await rateLimiter.acquire()
Acquire(c) ==
  /\ callerPc[c] = "idle"
  /\ acquire(c)

\* the timer of sleep(waitTime) fired: return this.acquire()
Wake(c) ==
  /\ callerPc[c] = "waiting"
  /\ timer[c] = 0
  /\ acquire(c)

\* one attempt of callClaudeWithRetry(prompt, options) by caller c: the
\* call goes out, the service does o, and the loop returns, throws or sleeps
ApiCall(c, o) ==
  /\ callerPc[c] = "call"
  /\ callAges' = Append(callAges, 0)
  /\ LET r == callClaudeAPI(o)
     IN IF \/ ~r.threw
           \/ MustRethrow(r.value)
           \/ callerAttempt[c] = DefaultMaxRetries
        THEN /\ callerPc' = [callerPc EXCEPT ![c] = "idle"]
             /\ callerAttempt' = [callerAttempt EXCEPT ![c] = 0]
             /\ waited' = [waited EXCEPT ![c] = FALSE]
             /\ UNCHANGED timer
        ELSE /\ callerPc' = [callerPc EXCEPT ![c] = "backoff"]
             /\ timer' = [timer EXCEPT ![c] = backoffMs(callerAttempt[c])]
             /\ UNCHANGED <<callerAttempt, waited>>
  /\ UNCHANGED <<requests, waiters, grantAges>>

\* the timer of sleep(backoffMs) fired: attempt++ and the next attempt
BackoffDone(c) ==
  /\ callerPc[c] = "backoff"
  /\ timer[c] = 0
  /\ callerPc' = [callerPc EXCEPT ![c] = "call"]
  /\ callerAttempt' = [callerAttempt EXCEPT ![c] = @ + 1]
  /\ UNCHANGED <<requests, timer, waited, waiters, grantAges, callAges>>

Older(ages) == [i \in DOMAIN ages |-> Min(ages[i] + TickMs, windowMs)]

\* the clock advances by TickMs
Tick ==
  /\ requests' = Older(requests)
  /\ grantAges' = InWindow(Older(grantAges))
  /\ callAges' = InWindow(Older(callAges))
  /\ timer' = [c \in Callers |-> IF timer[c] > TickMs THEN timer[c] - TickMs ELSE 0]
  /\ UNCHANGED <<callerPc, callerAttempt, waited, waiters>>

RateNext ==
  \/ \E c \in Callers : Acquire(c) /\ UNCHANGED <<storeVars, retryVars, utilVars, analyzeVars, wrapVars>>
  \/ \E c \in Callers : Wake(c) /\ UNCHANGED <<storeVars, retryVars, utilVars, analyzeVars, wrapVars>>
  \/ \E c \in Callers, o \in ServiceOutcomes :
       ApiCall(c, o) /\ UNCHANGED <<storeVars, retryVars, utilVars, analyzeVars, wrapVars>>
  \/ \E c \in Callers : BackoffDone(c) /\ UNCHANGED <<storeVars, retryVars, utilVars, analyzeVars, wrapVars>>
  \/ Tick /\ UNCHANGED <<storeVars, retryVars, utilVars, analyzeVars, wrapVars>>

RateSpec == Init /\ [][RateNext]_vars

\* time passes, due timers fire and calls settle; nothing is assumed about
\* when new callers arrive
FairRateSpec ==
  /\ RateSpec
  /\ WF_vars(Tick /\ UNCHANGED <<storeVars, retryVars, utilVars, analyzeVars, wrapVars>>)
  /\ \A c \in Callers :
       /\ WF_vars(Wake(c) /\ UNCHANGED <<storeVars, retryVars, utilVars, analyzeVars, wrapVars>>)
       /\ WF_vars(BackoffDone(c) /\ UNCHANGED <<storeVars, retryVars, utilVars, analyzeVars, wrapVars>>)
       /\ WF_vars(\E o \in ServiceOutcomes :
                    ApiCall(c, o) /\ UNCHANGED <<storeVars, retryVars, utilVars, analyzeVars, wrapVars>>)

\* ------------------------------------------------------------------------
\* Properties of the rate limiter
\* ------------------------------------------------------------------------
\* C12: at every moment, the slots granted by acquire() within the trailing
\* window of windowMs number at most maxRequests, whatever the number of
\* callers and the order of their wake-ups.
C12_GrantsWithinWindow == Len(grantAges) <= maxRequests

\* the window is full, one caller was granted its slot after having
\* waited and another caller is waiting
C12_Witness ==
  /\ Len(grantAges) = maxRequests
  /\ \E c \in Callers : callerPc[c] = "call" /\ waited[c]
  /\ \E c \in Callers : callerPc[c] = "waiting"

\* C13: the calls actually made to the analysis service within the
\* trailing window of windowMs, retries included, number at most
\* maxRequests.
C13_CallsWithinWindow == Len(callAges) <= maxRequests

Granted(c) == callerPc[c] \in {"idle", "waiting"} /\ callerPc'[c] = "call"

\* C14: a slot is granted to a caller only if no caller that invoked
\* acquire() earlier is still waiting: admission is first come, first served.
C14_FifoAdmission ==
  [][\A c \in Callers :
       Granted(c) => (waiters = <<>> \/ Head(waiters) = c)]_vars

\* C15: every caller that is made to wait in acquire() is eventually
\* granted a slot, whatever other callers keep arriving.
C15_EveryWaiterIsGranted ==
  \A c \in Callers : (callerPc[c] = "waiting") ~> (callerPc[c] = "call")

\* ------------------------------------------------------------------------
\* Properties of error propagation to the analyze endpoint
\* ------------------------------------------------------------------------
\* every attempt failed with a server fault or a network timeout or reset
TransientExhausted ==
  /\ Len(invocations) = maxRetries
  /\ \A i \in DOMAIN invocations :
       /\ Failed(invocations[i])
       /\ \/ invocations[i].status >= 500
          \/ invocations[i].code \in {"ETIMEDOUT", "ECONNRESET"}

\* C23: when the retries are exhausted on a transient failure (server
\* fault or network timeout), POST /analyze answers with a 5xx status,
\* never a 4xx.
C23_TransientExhaustedIs5xx ==
  (IsSome(analyzeResp) /\ TransientExhausted)
  => Val(analyzeResp).status >= 500

\* ------------------------------------------------------------------------
\* callClaudeAPI on every kind of transport failure
\* ------------------------------------------------------------------------
\* rejections of client.messages.create: a status or none (0), a code or
\* none (""), a retry-after header or none
TransportFailures ==
  {Rejected(st, code, h) :
     st \in {0, 400, 401, 403, 429, 500, 503},
     code \in {"", "ETIMEDOUT", "ECONNRESET", "ENOTFOUND"},
     h \in {None, Some("30"), Some("")}}

\* the catch block of callClaudeAPI on the rejection o, and what the catch
\* block of callClaudeWithRetry then decides
ClassifyFailure(o) ==
  /\ utilCall.fn = "none"
  /\ utilCall' = [fn |-> "callClaudeAPI", arg |-> o]
  /\ LET r == callClaudeAPI(o)
     IN utilResult' = Some([error |-> r.value, rethrown |-> MustRethrow(r.value)])

\* ------------------------------------------------------------------------
\* JSON values, parseClaudeResponse and validateAnalysisResponse
\* ------------------------------------------------------------------------
\* a JavaScript value as far as the client looks at it
Undefined == [type |-> "undefined", num |-> 0, str |-> ""]
Null == [type |-> "null", num |-> 0, str |-> ""]
Num(n) == [type |-> "number", num |-> n, str |-> ""]
Str(t) == [type |-> "string", num |-> 0, str |-> t]
Bool(b) == [type |-> "boolean", num |-> IF b THEN 1 ELSE 0, str |-> ""]
Obj == [type |-> "object", num |-> 0, str |-> ""]
Arr == [type |-> "array", num |-> 0, str |-> ""]

\* !v is false
Truthy(v) ==
  CASE v.type \in {"undefined", "null"} -> FALSE
    [] v.type = "number" -> v.num # 0
    [] v.type = "string" -> v.str # ""
    [] v.type = "boolean" -> v.num = 1
    [] OTHER -> TRUE

\* typeof v
TypeOf(v) == IF v.type \in {"null", "array"} THEN "object" ELSE v.type

\* a parsed response: the value itself and the two properties the client
\* reads from it
Parsed(top, extractedData, confidence) ==
  [top |-> top, extractedData |-> extractedData, confidence |-> confidence]

\* A response text is a sequence of pieces: "{" and "}", the member lists
\* "a" ("extractedData":{...},"confidence":0.95), "b"
\* ("extractedData":"none","confidence":1.5) and "c" ("notes":"..."), the
\* literal "1", prose "x", the fence opening "F" (```json and a newline) and
\* the fence closing "E" (a newline and ```). Between braces a nested
\* object stands for {"k":{...}}.
MemberChars == {"a", "b", "c"}
TextChars == {"{", "}", "a", "x", "F", "E", "1"}

RECURSIVE IsJsonObject(_)
IsJsonObject(t) ==
  /\ Len(t) >= 2
  /\ t[1] = "{"
  /\ t[Len(t)] = "}"
  /\ LET inner == SubSeq(t, 2, Len(t) - 1)
     IN \/ inner = <<>>
        \/ Len(inner) = 1 /\ inner[1] \in MemberChars
        \/ IsJsonObject(inner)

\* JSON.parse(t) does not throw
IsJsonText(t) == t = <<"1">> \/ IsJsonObject(t)

\* JSON.parse(t) for a text it accepts
JsonParse(t) ==
  IF t = <<"1">> THEN Parsed(Num(1), Undefined, Undefined)
  ELSE IF t = <<"{", "a", "}">> THEN Parsed(Obj, Obj, Num(95))
  ELSE IF t = <<"{", "b", "}">> THEN Parsed(Obj, Str("none"), Num(150))
  ELSE Parsed(Obj, Undefined, Undefined)

Positions(t, ch) == {i \in 1..Len(t) : t[i] = ch}
SetMin(S) == CHOOSE x \in S : \A y \in S : x <= y
SetMax(S) == CHOOSE x \in S : \A y \in S : x >= y

\* responseText.match(/```json\n([\s\S]*?)\n```/): the first opening and
\* the first closing after it
FenceOpen(t) == SetMin(Positions(t, "F"))
FenceMatches(t) ==
  /\ Positions(t, "F") # {}
  /\ \E j \in Positions(t, "E") : j > FenceOpen(t)
FenceInterior(t) ==
  LET i == FenceOpen(t)
      j == SetMin({k \in Positions(t, "E") : k > i})
  IN SubSeq(t, i + 1, j - 1)

\* responseText.match(/\{[\s\S]*\}/): from the first "{" to the last "}"
BraceMatches(t) ==
  /\ Positions(t, "{") # {}
  /\ \E j \in Positions(t, "}") : j > SetMin(Positions(t, "{"))
BraceSpan(t) ==
  SubSeq(t, SetMin(Positions(t, "{")), SetMax(Positions(t, "}")))

PlainError(message) ==
  [name |-> "Error", code |-> "", status |-> 0, retryable |-> FALSE,
   retryAfter |-> None, message |-> message]

\* variant: a fenced block that does not parse is not an error, the
\* search goes on with the braces
parseClaudeResponseFallsThrough(t) ==
  IF IsJsonText(t) THEN Returned(JsonParse(t))
  ELSE IF FenceMatches(t) /\ IsJsonText(FenceInterior(t))
    THEN Returned(JsonParse(FenceInterior(t)))
  ELSE IF BraceMatches(t)
    THEN IF IsJsonText(BraceSpan(t))
         THEN Returned(JsonParse(BraceSpan(t)))
         ELSE Threw(PlainError("Failed to parse extracted JSON object"))
  ELSE Threw(PlainError("No valid JSON found in response"))

parseClaudeResponse(t) ==
  IF IsJsonText(t) THEN Returned(JsonParse(t))
  ELSE IF FenceMatches(t)
    THEN IF IsJsonText(FenceInterior(t))
         THEN Returned(JsonParse(FenceInterior(t)))
         ELSE Threw(PlainError("Failed to parse JSON from markdown block"))
  ELSE IF BraceMatches(t)
    THEN IF IsJsonText(BraceSpan(t))
         THEN Returned(JsonParse(BraceSpan(t)))
         ELSE Threw(PlainError("Failed to parse extracted JSON object"))
  ELSE Threw(PlainError("No valid JSON found in response"))

\* variant: an out-of-range confidence is clamped to the nearest bound
confidenceOrDefaultClamping(v) ==
  IF TypeOf(v) # "number" THEN Num(DefaultConfidence)
  ELSE IF v.num < 0 THEN Num(0)
  ELSE IF v.num > ConfidenceOne THEN Num(ConfidenceOne)
  ELSE v

\* the confidence after the test of lines 275-278
confidenceOrDefault(v) ==
  IF TypeOf(v) # "number" \/ v.num < 0 \/ v.num > ConfidenceOne
  THEN Num(DefaultConfidence)
  ELSE v

\* variant: the response is not examined, only its confidence is defaulted
validateAnalysisResponseLax(parsed) ==
  Returned([parsed EXCEPT !.confidence = confidenceOrDefault(@)])

validateAnalysisResponse(parsed) ==
  IF ~Truthy(parsed.top) \/ TypeOf(parsed.top) # "object"
  THEN Threw(PlainError("Response must be an object"))
  ELSE IF ~Truthy(parsed.extractedData)
  THEN Threw(PlainError("Missing extractedData field"))
  ELSE Returned([parsed EXCEPT !.confidence = confidenceOrDefault(@)])

ParseTexts == UNION {[1..n -> TextChars] : n \in 0..MaxTextLen}

ConfidenceInputs ==
  {Undefined, Null, Str("0.9"), Bool(TRUE),
   Num(-10), Num(0), Num(50), Num(95), Num(100), Num(150)}

ExtractedDataInputs ==
  {Undefined, Null, Obj, Arr, Str("none"), Str(""), Num(5), Num(0),
   Bool(TRUE), Bool(FALSE)}

\* what JSON.parse can hand to validateAnalysisResponse; only an object
\* has properties
ParsedInputs ==
  {Parsed(Obj, d, c) : d \in ExtractedDataInputs, c \in ConfidenceInputs}
    \cup {Parsed(top, Undefined, Undefined) :
            top \in {Arr, Null, Num(1), Num(0), Str("text"), Bool(TRUE)}}

ParseResponse(t) ==
  /\ utilCall.fn = "none"
  /\ utilCall' = [fn |-> "parseClaudeResponse", arg |-> t]
  /\ utilResult' = Some(parseClaudeResponse(t))

ValidateResponse(parsed) ==
  /\ utilCall.fn = "none"
  /\ utilCall' = [fn |-> "validateAnalysisResponse", arg |-> parsed]
  /\ utilResult' = Some(validateAnalysisResponse(parsed))

\* ------------------------------------------------------------------------
\* createSkillZip, as called by generateSkill and by the download route
\* ------------------------------------------------------------------------
\* a skillFiles object: its document properties by key, and its
\* references property
SkillFiles(key, content, references) ==
  [docs |-> (key :> content), references |-> references]

\* zip.file(name, undefined) is decided by the JSZip library, which is not
\* part of the repository: it stores an empty file or it throws
JSZipUndefinedData == {"emptyFile", "throws"}

ZipEntry(path, content) == [path |-> path, content |-> content]

\* createSkillZip: the files of the archive it builds, or the throw
createSkillZip(skillFiles, onUndefined) ==
  LET hasMain == "skill.md" \in DOMAIN skillFiles.docs
      refs ==
        {ZipEntry("references/" \o f, skillFiles.references[f]) :
           f \in DOMAIN skillFiles.references}
  IN IF ~hasMain /\ onUndefined = "throws"
     THEN Threw(PlainError("zip.file: no data"))
     ELSE Returned(
            {ZipEntry("skill.md",
                      IF hasMain THEN skillFiles.docs["skill.md"] ELSE "")}
              \cup refs)

\* rows of skills as create and update leave them
StoredDocuments ==
  {[main_content |-> generateSkillFiles(ty, <<>>).main,
    references |-> generateSkillFiles(ty, <<>>).references] : ty \in SkillTypes}
    \cup {[main_content |-> "docB", references |-> r] : r \in {RefsB, <<>>}}

\* step 6 of generateSkill on the files rendered for skillType
PackageGenerated(skillType) ==
  /\ utilCall.fn = "none"
  /\ LET files == generateSkillFiles(skillType, <<>>)
     IN /\ utilCall' =
             [fn |-> "generateSkill.createSkillZip",
              arg |-> [main_content |-> files.main,
                       references |-> files.references]]
        /\ utilResult' =
             Some(createSkillZip(
                    SkillFiles("skill.md", files.main, files.references),
                    "emptyFile"))

\* GET /skills/:id/download of the stored row: the archive sent, or the
\* answer 500
DownloadSkill(row, onUndefined) ==
  /\ utilCall.fn = "none"
  /\ utilCall' = [fn |-> "download.createSkillZip", arg |-> row]
  /\ utilResult' =
       Some(createSkillZip(
              SkillFiles("SKILL.md", row.main_content, row.references),
              onUndefined))

\* ------------------------------------------------------------------------
\* generateSkillFiles: the templates and their rendering by Handlebars
\* ------------------------------------------------------------------------
\* a value of the template data: its type, its text if it is a string, a
\* number or a boolean, its elements if it is a list, its property values
\* if it is an object
TValue(type, text, items) == [type |-> type, text |-> text, items |-> items]
TUndefined == TValue("undefined", "", <<>>)
TNull == TValue("null", "", <<>>)
TString(t) == TValue("string", t, <<>>)
TNumber(t) == TValue("number", t, <<>>)
TBoolean(t) == TValue("boolean", t, <<>>)
TList(items) == TValue("array", "", items)
TObject(values) == TValue("object", "", values)

\* values of one field of extractedData, as JSON.parse can deliver them; a
\* field whose parent object is missing reads as undefined
TemplateValues ==
  {TUndefined, TNull, TString(""), TString("text"), TNumber("0"),
   TNumber("5"), TBoolean("false"), TBoolean("true"), TList(<<>>),
   TList(<<"x">>), TList(<<"x", "y">>), TObject(<<"v">>)}

\* the condition of {{#if v}}: v is truthy and not an empty list
HbIf(v) ==
  CASE v.type \in {"undefined", "null"} -> FALSE
    [] v.type = "string" -> v.text # ""
    [] v.type = "number" -> v.text # "0"
    [] v.type = "boolean" -> v.text = "true"
    [] v.type = "array" -> v.items # <<>>
    [] OTHER -> TRUE

Bullet(text) == [kind |-> "bullet", text |-> text]
Literal(text) == [kind |-> "literal", text |-> text]

\* {{#each v}}- {{this}}{{/each}}: one line per element of a list or per
\* property of an object, nothing for any other value
HbEach(v) ==
  IF v.type \in {"array", "object"}
  THEN [i \in 1..Len(v.items) |-> Bullet(v.items[i])]
  ELSE <<>>

RECURSIVE JoinComma(_)
JoinComma(items) ==
  IF items = <<>> THEN ""
  ELSE IF Len(items) = 1 THEN items[1]
  ELSE items[1] \o "," \o JoinComma(Tail(items))

\* {{v}}: the text Handlebars prints for the value
HbMustache(v) ==
  CASE v.type \in {"undefined", "null"} -> ""
    [] v.type = "array" -> JoinComma(v.items)
    [] v.type = "object" -> "[object Object]"
    [] OTHER -> v.text

\* {{#if v}}{{#each v}}- {{this}}{{/each}}{{else}}{{v}}{{/if}}
ListBlock(v) == IF HbIf(v) THEN HbEach(v) ELSE <<Literal(HbMustache(v))>>

\* the templates a property of TEMPLATES holds
TemplateSet(skillMd, practicesMd, structureMd, examplesMd) ==
  [found |-> TRUE, skillMd |-> skillMd, practicesMd |-> practicesMd,
   structureMd |-> structureMd, examplesMd |-> examplesMd]

\* variant: the technical type registers no examples template
TEMPLATESNoExamples(skillType) ==
  IF skillType = "technical" THEN TemplateSet(TRUE, TRUE, TRUE, FALSE)
  ELSE IF skillType \in SkillTypes THEN TemplateSet(TRUE, TRUE, TRUE, TRUE)
  ELSE IF skillType \in InheritedKeys
  THEN TemplateSet(FALSE, FALSE, FALSE, FALSE)
  ELSE [TemplateSet(FALSE, FALSE, FALSE, FALSE) EXCEPT !.found = FALSE]

\* TEMPLATES[skillType]: the four templates of a registered type; a value
\* without templates for a name every object inherits; undefined otherwise
TEMPLATES(skillType) ==
  IF skillType \in SkillTypes THEN TemplateSet(TRUE, TRUE, TRUE, TRUE)
  ELSE IF skillType \in InheritedKeys
  THEN TemplateSet(FALSE, FALSE, FALSE, FALSE)
  ELSE [TemplateSet(FALSE, FALSE, FALSE, FALSE) EXCEPT !.found = FALSE]

\* generateSkillFiles(skillType, templateData) as a call: what it throws,
\* or the files with a scalar field and a list field rendered
render(skillType, templateData) ==
  LET templates == TEMPLATES(skillType)
      has == [f \in ReferenceFiles |->
                CASE f = "practices.md" -> templates.practicesMd
                  [] f = "structure.md" -> templates.structureMd
                  [] OTHER -> templates.examplesMd]
  IN IF ~templates.found
     THEN Threw(PlainError("No template found for skill type"))
     ELSE IF ~templates.skillMd
     THEN Threw(PlainError("You must pass a string to Handlebars.compile"))
     ELSE Returned(
            [main |-> [scalar |-> HbMustache(templateData.scalar),
                       block |-> ListBlock(templateData.list)],
             references |->
               [f \in {g \in ReferenceFiles : has[g]} |->
                  ListBlock(templateData.list)]])

RenderTypes == SkillTypes \cup {"bogus", "constructor"}

RenderData ==
  [scalar : {TUndefined, TNull, TString("text")}, list : TemplateValues]

RenderSkillFiles(skillType, templateData) ==
  /\ utilCall.fn = "none"
  /\ utilCall' =
       [fn |-> "generateSkillFiles",
        arg |-> [skillType |-> skillType, templateData |-> templateData]]
  /\ utilResult' = Some(render(skillType, templateData))

\* names handed to formatSkillName: every text of up to MaxNameInputLen
\* characters over a letter, a capital, a digit, a hyphen, a blank and a
\* sign, and the text "My Skill!!"
NameInputChars == {"a", "B", "1", "-", " ", "!"}
MySkillBangs == <<"M", "y", " ", "S", "k", "i", "l", "l", "!", "!">>
NameInputs ==
  UNION {[1..n -> NameInputChars] : n \in 0..MaxNameInputLen}
    \cup {MySkillBangs}

FormatName(name) ==
  /\ utilCall.fn = "none"
  /\ utilCall' = [fn |-> "formatSkillName", arg |-> name]
  /\ utilResult' = Some(formatSkillName(name))

\* formatSkillName applied to the name it returned
FormatNameAgain ==
  /\ utilCall.fn = "formatSkillName"
  /\ utilCall' = [fn |-> "formatSkillName.again", arg |-> Val(utilResult)]
  /\ utilResult' = Some(formatSkillName(Val(utilResult)))

\* each behaviour makes one call
UtilReady == utilCall.fn = "none"

UtilNext ==
  \/ UtilReady /\ \E o \in TransportFailures :
       ClassifyFailure(o) /\ UNCHANGED <<storeVars, retryVars, rateVars, analyzeVars, wrapVars>>
  \/ UtilReady /\ \E t \in ParseTexts :
       ParseResponse(t) /\ UNCHANGED <<storeVars, retryVars, rateVars, analyzeVars, wrapVars>>
  \/ UtilReady /\ \E parsed \in ParsedInputs :
       ValidateResponse(parsed) /\ UNCHANGED <<storeVars, retryVars, rateVars, analyzeVars, wrapVars>>
  \/ UtilReady /\ \E skillType \in RenderTypes, templateData \in RenderData :
       RenderSkillFiles(skillType, templateData)
         /\ UNCHANGED <<storeVars, retryVars, rateVars, analyzeVars, wrapVars>>
  \/ UtilReady /\ \E name \in NameInputs :
       FormatName(name) /\ UNCHANGED <<storeVars, retryVars, rateVars, analyzeVars, wrapVars>>
  \/ FormatNameAgain /\ UNCHANGED <<storeVars, retryVars, rateVars, analyzeVars, wrapVars>>
  \/ UtilReady /\ \E skillType \in SkillTypes :
       PackageGenerated(skillType) /\ UNCHANGED <<storeVars, retryVars, rateVars, analyzeVars, wrapVars>>
  \/ UtilReady /\ \E row \in StoredDocuments, onUndefined \in JSZipUndefinedData :
       DownloadSkill(row, onUndefined) /\ UNCHANGED <<storeVars, retryVars, rateVars, analyzeVars, wrapVars>>

UtilSpec == Init /\ [][UtilNext]_vars

\* C21: callClaudeAPI gives every transport failure exactly one kind with
\* a fixed retryability: 429 is a retryable RateLimitError carrying the
\* retry-after header or 60, 401 a fatal auth error, a status of 500 or
\* more a retryable ServiceError, 400 a fatal invalid request, the codes
\* ETIMEDOUT and ECONNRESET a retryable timeout, anything else a fatal
\* unknown error; and the retry loop rethrows exactly the fatal ones.
C21_ClassificationIsFixed ==
  utilCall.fn = "callClaudeAPI" =>
    LET o == utilCall.arg
        e == Val(utilResult).error
        kind ==
          IF o.status = 429 THEN <<"RateLimitError", "RATE_LIMIT", TRUE>>
          ELSE IF o.status = 401 THEN <<"ClaudeAPIError", "AUTH_ERROR", FALSE>>
          ELSE IF o.status >= 500 THEN <<"ServiceError", "SERVER_ERROR", TRUE>>
          ELSE IF o.status = 400
            THEN <<"ClaudeAPIError", "INVALID_REQUEST", FALSE>>
          ELSE IF o.code \in {"ETIMEDOUT", "ECONNRESET"}
            THEN <<"ClaudeAPIError", "TIMEOUT", TRUE>>
          ELSE <<"ClaudeAPIError", "UNKNOWN", FALSE>>
    IN /\ <<e.name, e.code, e.retryable>> = kind
       /\ o.status = 429 =>
            e.retryAfter =
              IF o.retryAfterHeader \in {None, Some("")}
              THEN Some("60") ELSE o.retryAfterHeader
       /\ o.status # 429 => e.retryAfter = None
       /\ Val(utilResult).rethrown = ~e.retryable

\* a 503 that also carries a network code is a ServiceError, which the
\* retry loop does not rethrow
C21_Witness ==
  /\ utilCall.fn = "callClaudeAPI"
  /\ utilCall.arg.status = 503
  /\ utilCall.arg.code = "ETIMEDOUT"
  /\ Val(utilResult).error.code = "SERVER_ERROR"
  /\ ~Val(utilResult).rethrown

\* ------------------------------------------------------------------------
\* Properties of validateAnalysisResponse and parseClaudeResponse
\* ------------------------------------------------------------------------
Validated == utilCall.fn = "validateAnalysisResponse" /\ ~Val(utilResult).threw

InUnitRange(v) == v.type = "number" /\ v.num >= 0 /\ v.num <= 100

\* C27: every response that validateAnalysisResponse accepts comes back
\* with a numeric confidence in [0,1]: a confidence already in [0,1] is
\* unchanged, any other (missing, not a number, below 0, above 1) is 0.5,
\* and no confidence makes the validation fail.
C27_ConfidenceInUnitRange ==
  utilCall.fn = "validateAnalysisResponse" =>
    LET given == utilCall.arg.confidence
        r == Val(utilResult)
    IN /\ r.threw <=>
            ~(utilCall.arg.top.type \in {"object", "array"}
                /\ Truthy(utilCall.arg.extractedData))
       /\ ~r.threw =>
            /\ InUnitRange(r.value.confidence)
            /\ r.value.confidence =
                 IF InUnitRange(given) THEN given ELSE Num(50)
            /\ r.value.extractedData = utilCall.arg.extractedData

\* a response with confidence 1.5 is accepted with confidence 0.5
C27_Witness ==
  /\ Validated
  /\ utilCall.arg.confidence = Num(150)
  /\ Val(utilResult).value.confidence = Num(50)

\* C28: validateAnalysisResponse accepts a response only if its
\* extractedData is an object; without extractedData, or with one that is
\* not an object, the response is rejected.
C28_AcceptsOnlyObjectData ==
  Validated => utilCall.arg.extractedData.type \in {"object", "array"}

RECURSIVE BalancedEnd(_, _, _)
\* the index closing the brace opened before k at nesting depth, 0 if none
BalancedEnd(t, k, depth) ==
  IF k > Len(t) THEN 0
  ELSE IF t[k] = "{" THEN BalancedEnd(t, k + 1, depth + 1)
  ELSE IF t[k] = "}"
    THEN IF depth = 1 THEN k ELSE BalancedEnd(t, k + 1, depth - 1)
  ELSE BalancedEnd(t, k + 1, depth)

\* the first balanced {...} substring of t, None if there is none
FirstBalanced(t) ==
  IF Positions(t, "{") = {} THEN None
  ELSE LET i == SetMin(Positions(t, "{"))
           j == BalancedEnd(t, i + 1, 1)
       IN IF j = 0 THEN None ELSE Some(SubSeq(t, i, j))

\* the three strategies as stated: each is tried when the earlier failed
ThreeStrategies(t) ==
  IF IsJsonText(t) THEN Some(JsonParse(t))
  ELSE IF FenceMatches(t) /\ IsJsonText(FenceInterior(t))
    THEN Some(JsonParse(FenceInterior(t)))
  ELSE IF IsSome(FirstBalanced(t)) /\ IsJsonText(Val(FirstBalanced(t)))
    THEN Some(JsonParse(Val(FirstBalanced(t))))
  ELSE None

\* C29: parseClaudeResponse returns the result of the first of three
\* strategies that succeeds - the whole text, the interior of the fenced
\* json block, the first balanced {...} substring - each tried whenever the
\* earlier ones failed, and fails only if none succeeds.
C29_ThreeStrategiesInOrder ==
  utilCall.fn = "parseClaudeResponse" =>
    LET r == Val(utilResult)
        claimed == ThreeStrategies(utilCall.arg)
    IN /\ r.threw <=> claimed = None
       /\ ~r.threw => r.value = Val(claimed)

\* ------------------------------------------------------------------------
\* POST /analyze and analyzeContent
\* ------------------------------------------------------------------------
\* a content: a text and its length in characters
Content(text, length) == [text |-> text, length |-> length]

AnalyzeContents ==
  {Content("short", MinAnalyzeLen - 5), Content("contentA", MinAnalyzeLen),
   Content("contentB", MaxAnalyzeLen), Content("long", MaxAnalyzeLen + 1)}

\* the keys of FRAMEWORKS
FrameworkKeys == {"copywriting", "process", "technical"}

AnalyzeContentTypes == {"process", "technical", "essay", "constructor"}

AnalyzeBodies ==
  [content : AnalyzeContents, contentType : AnalyzeContentTypes]

\* variant: the schema lets any content type through
AnalyzeRequestSchemaAnyType(body) ==
  /\ body.content.length >= MinAnalyzeLen
  /\ body.content.length <= MaxAnalyzeLen

\* AnalyzeRequestSchema.parse(body) does not throw
AnalyzeRequestSchema(body) ==
  /\ body.content.length >= MinAnalyzeLen
  /\ body.content.length <= MaxAnalyzeLen
  /\ body.contentType \in FrameworkKeys

\* FRAMEWORKS[contentType] is truthy
HasFramework(contentType) == contentType \in FrameworkKeys \cup InheritedKeys

\* Math.ceil(text.length / 4)
estimateTokens(content) == (content.length + 3) \div 4

shouldAnalyzeContent(content) == estimateTokens(content) <= MaxAnalyzeTokens

\* the digest is taken to be free of collisions
getCacheKey(content, contentType) ==
  [contentType |-> contentType, hash |-> content.text \o contentType]

\* crypto.randomUUID(): the n-th identifier differs from all before it
Uuids == <<"uuid-1", "uuid-2", "uuid-3">>
generateUUID(n) == Uuids[n]

\* the last outcome of callClaudeWithRetry: the text of the response, or
\* the error of the last attempt
ResponseTexts ==
  {<<"{", "a", "}">>, <<"{", "b", "}">>, <<"{", "}">>, <<"x">>}

FinalRejections ==
  {Rejected(429, "", Some("30")), Rejected(401, "", None),
   Rejected(400, "", None), Rejected(503, "", None),
   Rejected(0, "ETIMEDOUT", None), Rejected(404, "", None)}

\* the validation at the head of analyzeContent: the error it throws, or
\* None
analyzeContentValidation(content, contentType) ==
  IF content.length = 0 \/ content.length < MinAnalyzeLen
  THEN Some(AnalysisError)  \* 'Content too short for analysis'
  ELSE IF content.length > MaxAnalyzeLen
  THEN Some(AnalysisError)  \* 'Content too long (max 50,000 characters)'
  ELSE IF ~HasFramework(contentType)
  THEN Some(AnalysisError)  \* 'Unknown content type: ...'
  ELSE None

\* the responses of router.post('/analyze')
AnalyzeOk(result) == [status |-> 200, error |-> "", body |-> Some(result)]
AnalyzeInvalid == [status |-> 400, error |-> "Validation failed", body |-> None]
AnalyzeFailed(error) ==
  [status |-> AnalyzeErrorResponse(error).status,
   error |-> IF error.code = "RATE_LIMIT" THEN "Rate limit exceeded"
             ELSE "Analysis failed",
   body |-> None]

\* variant: the timer is armed one tick too long
CacheExpiryLate(now) == now + CacheTtlTicks + 1

\* the time the timer armed at now fires: 15 * 60 * 1000 ms later
CacheExpiry(now) == now + CacheTtlTicks

\* analyzeContent throws: the error passes the outer catch and the route
\* answers it
AnalyzeThrows(r, error, effects) ==
  LET caught == analyzeContentCatch(error)
  IN /\ anPc' = [anPc EXCEPT ![r] = "done"]
     /\ anThrown' = [anThrown EXCEPT ![r] = Some(error)]
     /\ anOutcome' = [anOutcome EXCEPT ![r] = Some(Threw(caught))]
     /\ anResp' = [anResp EXCEPT ![r] = Some(AnalyzeFailed(caught))]
     /\ anEffects' = [anEffects EXCEPT ![r] = @ \cup effects]

\* analyzeContent returns the result
AnalyzeReturns(r, result, effects) ==
  /\ anPc' = [anPc EXCEPT ![r] = "done"]
  /\ anOutcome' = [anOutcome EXCEPT ![r] = Some(Returned(result))]
  /\ anResp' = [anResp EXCEPT ![r] = Some(AnalyzeOk(result))]
  /\ anEffects' = [anEffects EXCEPT ![r] = @ \cup effects]
  /\ UNCHANGED anThrown

\* POST /analyze up to the await of callClaudeWithRateLimit: the schema,
\* the validation of analyzeContent, the cache lookup, the size test and
\* the call, whose first statement is rateLimiter.acquire()
PostAnalyze(r, body) ==
  /\ anPc[r] = "idle"
  /\ anBody' = [anBody EXCEPT ![r] = Some(body)]
  /\ UNCHANGED <<analysisCache, cacheTimers, clock, uuidCount>>
  /\ IF ~AnalyzeRequestSchema(body)
     THEN /\ anPc' = [anPc EXCEPT ![r] = "done"]
          /\ anResp' = [anResp EXCEPT ![r] = Some(AnalyzeInvalid)]
          /\ UNCHANGED <<anStart, anThrown, anOutcome, anEffects>>
     ELSE LET content == body.content
              contentType == body.contentType
              invalid == analyzeContentValidation(content, contentType)
              cacheKey == getCacheKey(content, contentType)
          IN /\ anStart' = [anStart EXCEPT ![r] = Some(clock)]
             /\ IF IsSome(invalid)
                THEN AnalyzeThrows(r, Val(invalid), {})
                ELSE IF cacheKey \in DOMAIN analysisCache
                THEN AnalyzeReturns(r, analysisCache[cacheKey], {"cacheRead"})
                ELSE IF ~shouldAnalyzeContent(content)
                THEN AnalyzeThrows(r, AnalysisError, {"cacheRead"})
                ELSE /\ anPc' = [anPc EXCEPT ![r] = "awaiting"]
                     /\ anEffects' =
                          [anEffects EXCEPT ![r] = @ \cup {"cacheRead", "acquire"}]
                     /\ UNCHANGED <<anThrown, anOutcome, anResp>>

\* callClaudeWithRateLimit settles after at least one call of the
\* service; analyzeContent resumes: parse, validate, build the result,
\* cache it and arm the pending, or throw
ServiceSettles(r, o) ==
  /\ anPc[r] = "awaiting"
  /\ UNCHANGED <<clock, anBody, anStart>>
  /\ LET body == Val(anBody[r])
         cacheKey == getCacheKey(body.content, body.contentType)
         called == callClaudeAPI(o)
         parsed == parseClaudeResponse(called.value)
         validated == validateAnalysisResponse(parsed.value)
         result ==
           [analysisId |-> generateUUID(uuidCount + 1),
            contentType |-> body.contentType,
            extractedData |-> validated.value.extractedData,
            confidence |-> validated.value.confidence,
            timestamp |-> clock]
     IN IF called.threw
        THEN /\ AnalyzeThrows(r, called.value, {"service"})
             /\ UNCHANGED <<analysisCache, cacheTimers, uuidCount>>
        ELSE IF parsed.threw
        THEN /\ AnalyzeThrows(r, parsed.value, {"service"})
             /\ UNCHANGED <<analysisCache, cacheTimers, uuidCount>>
        ELSE IF validated.threw
        THEN /\ AnalyzeThrows(r, validated.value, {"service"})
             /\ UNCHANGED <<analysisCache, cacheTimers, uuidCount>>
        ELSE /\ uuidCount' = uuidCount + 1
             /\ analysisCache' =
                  [k \in DOMAIN analysisCache \cup {cacheKey} |->
                     IF k = cacheKey THEN result ELSE analysisCache[k]]
             /\ cacheTimers' =
                  cacheTimers \cup
                    {[key |-> cacheKey, due |-> CacheExpiry(clock)]}
             /\ AnalyzeReturns(r, result, {"service", "cacheWrite"})

\* setTimeout(() => analysisCache.delete(cacheKey), 15 * 60 * 1000) fires
CacheTimerFires(pending) ==
  /\ pending \in cacheTimers
  /\ clock >= pending.due
  /\ cacheTimers' = cacheTimers \ {pending}
  /\ analysisCache' =
       [k \in DOMAIN analysisCache \ {pending.key} |-> analysisCache[k]]
  /\ UNCHANGED <<clock, uuidCount, anPc, anBody, anStart, anThrown,
                 anOutcome, anResp, anEffects>>

\* one tick (15 minutes / CacheTtlTicks) passes; a timer that is due
\* fires first
AnalyzeTick ==
  /\ clock < MaxClock
  /\ \A pending \in cacheTimers : pending.due > clock
  /\ clock' = clock + 1
  /\ UNCHANGED <<analysisCache, cacheTimers, uuidCount, anPc, anBody, anStart,
                 anThrown, anOutcome, anResp, anEffects>>

AnalyzeNext ==
  \/ \E r \in AnalyzeRequests, body \in AnalyzeBodies :
       PostAnalyze(r, body) /\ UNCHANGED <<storeVars, retryVars, rateVars, utilVars, wrapVars>>
  \/ \E r \in AnalyzeRequests, t \in ResponseTexts :
       ServiceSettles(r, Resolved(t)) /\ UNCHANGED <<storeVars, retryVars, rateVars, utilVars, wrapVars>>
  \/ \E r \in AnalyzeRequests, o \in FinalRejections :
       ServiceSettles(r, o) /\ UNCHANGED <<storeVars, retryVars, rateVars, utilVars, wrapVars>>
  \/ \E pending \in cacheTimers :
       CacheTimerFires(pending) /\ UNCHANGED <<storeVars, retryVars, rateVars, utilVars, wrapVars>>
  \/ AnalyzeTick /\ UNCHANGED <<storeVars, retryVars, rateVars, utilVars, wrapVars>>

AnalyzeSpec == Init /\ [][AnalyzeNext]_vars

\* ------------------------------------------------------------------------
\* analyzeContentWithRetry
\* ------------------------------------------------------------------------
\* what analyzeContent can throw: the errors of callClaudeAPI and its own,
\* after its outer catch
AnalyzeContentErrors ==
  {analyzeContentCatch(callClaudeAPI(o).value) :
     o \in {x \in ServiceOutcomes : x.kind = "error"}}
    \cup {AnalysisError}

\* variant: only the network error codes count as retryable
isRetryableErrorCodesOnly(error) ==
  error.code \in {"ETIMEDOUT", "ECONNRESET", "ENOTFOUND"}

isRetryableError(error) ==
  \/ error.status \in {429, 500, 502, 503, 504}
  \/ error.code \in {"ETIMEDOUT", "ECONNRESET", "ENOTFOUND"}
  \/ error.retryable = TRUE

\* Math.pow(2, attempt) * 1000
wrapBackoffMs(a) == (2 ^ a) * 1000

\* maxRetries as passed, or left out
WrapRetriesInputs == {None} \cup {Some(m) : m \in 0..MaxWrapRetries}

\* the loop test for attempt a: the next invocation, or throw lastError
WrapLoop(a, last) ==
  /\ wrAttempt' = a
  /\ IF a <= wrMaxRetries'
     THEN wrPc' = "call" /\ wrResult' = None
     ELSE wrPc' = "threw" /\ wrResult' = Some(last)

\* analyzeContentWithRetry(content, contentType, maxRetries) up to the
\* first await
StartAnalyzeWithRetry(m) ==
  /\ wrPc = "idle"
  /\ wrMaxRetries' = IF IsSome(m) THEN Val(m) ELSE DefaultAnalyzeRetries
  /\ WrapLoop(1, wrLastError)
  /\ UNCHANGED <<wrLastError, wrInvocations, wrSleeps>>

\* await analyzeContent(...) resolves: the result is returned
AnalyzeContentReturns ==
  /\ wrPc = "call"
  /\ wrInvocations' = Append(wrInvocations, None)
  /\ wrPc' = "returned"
  /\ UNCHANGED <<wrMaxRetries, wrAttempt, wrLastError, wrResult, wrSleeps>>

\* await analyzeContent(...) rejects with error: the catch block, up to
\* the throw, the await of sleep, or the next invocation
AnalyzeContentThrows(error) ==
  /\ wrPc = "call"
  /\ wrInvocations' = Append(wrInvocations, Some(error))
  /\ wrLastError' = Some(error)
  /\ UNCHANGED wrMaxRetries
  /\ IF error.name = "AnalysisError" /\ ~error.retryable
     THEN /\ wrPc' = "threw"
          /\ wrResult' = Some(Some(error))
          /\ UNCHANGED <<wrAttempt, wrSleeps>>
     ELSE IF wrAttempt < wrMaxRetries /\ isRetryableError(error)
     THEN /\ wrPc' = "sleep"
          /\ wrSleeps' = Append(wrSleeps, wrapBackoffMs(wrAttempt))
          /\ UNCHANGED <<wrAttempt, wrResult>>
     ELSE /\ WrapLoop(wrAttempt + 1, Some(error))
          /\ UNCHANGED wrSleeps

\* await sleep(backoffMs) is over: continue with the next attempt
WrapSleepDone ==
  /\ wrPc = "sleep"
  /\ UNCHANGED wrMaxRetries
  /\ WrapLoop(wrAttempt + 1, wrLastError)
  /\ UNCHANGED <<wrLastError, wrInvocations, wrSleeps>>

WrapNext ==
  \/ \E m \in WrapRetriesInputs :
       StartAnalyzeWithRetry(m) /\ UNCHANGED <<storeVars, retryVars, rateVars, utilVars, analyzeVars>>
  \/ AnalyzeContentReturns /\ UNCHANGED <<storeVars, retryVars, rateVars, utilVars, analyzeVars>>
  \/ \E error \in AnalyzeContentErrors :
       AnalyzeContentThrows(error) /\ UNCHANGED <<storeVars, retryVars, rateVars, utilVars, analyzeVars>>
  \/ WrapSleepDone /\ UNCHANGED <<storeVars, retryVars, rateVars, utilVars, analyzeVars>>

WrapSpec == Init /\ [][WrapNext]_vars

\* ------------------------------------------------------------------------
\* Property of the archive
\* ------------------------------------------------------------------------
\* C30: the archive made by packaging a generated skill, or sent by the
\* download route for a stored skill, unpacks to exactly the main document
\* at the root and every reference document under references/, each with
\* the content rendered or stored, and nothing else.
C30_ArchiveRoundTrip ==
  utilCall.fn \in {"generateSkill.createSkillZip", "download.createSkillZip"}
  => /\ ~Val(utilResult).threw
     /\ Val(utilResult).value =
          {ZipEntry("skill.md", utilCall.arg.main_content)}
            \cup {ZipEntry("references/" \o f, utilCall.arg.references[f]) :
                    f \in DOMAIN utilCall.arg.references}

\* ------------------------------------------------------------------------
\* Properties of the analysis pipeline
\* ------------------------------------------------------------------------
AnalyzeDone(r) == anPc[r] = "done"
CalledAnalyzeContent(r) == IsSome(anStart[r])
Succeeded(r) == IsSome(anOutcome[r]) /\ ~Val(anOutcome[r]).threw
KeyOf(r) == <<Val(anBody[r]).content.text, Val(anBody[r]).contentType>>

\* C22: an error that was given a kind (an error code) where it was raised
\* inside the analysis pipeline reaches the caller of analyzeContent with
\* that same code: an authentication error stays one, a timeout stays
\* one, a rate-limit error stays one, a service error stays one.
C22_ErrorKindPreserved ==
  \A r \in AnalyzeRequests :
    (IsSome(anThrown[r]) /\ Val(anThrown[r]).code # "")
    => /\ Val(anOutcome[r]).threw
       /\ Val(anOutcome[r]).value.code = Val(anThrown[r]).code

\* C24: of two calls of analyzeContent with the same content and type that
\* both return a result, the second made less than the TTL after the first
\* and the first one answered by the service, sequential or overlapping,
\* the second does not invoke the service: it is answered from the cache.
C24_AtMostOneInvocationPerKey ==
  \A r1, r2 \in AnalyzeRequests :
    ( /\ r1 # r2
      /\ CalledAnalyzeContent(r1) /\ CalledAnalyzeContent(r2)
      /\ KeyOf(r1) = KeyOf(r2)
      /\ Val(anStart[r1]) <= Val(anStart[r2])
      /\ Val(anStart[r2]) - Val(anStart[r1]) < CacheTtlTicks
      /\ Succeeded(r1) /\ "service" \in anEffects[r1]
      /\ Succeeded(r2) )
    => "service" \notin anEffects[r2]

\* the request is invalid: too short, too long, or of a type that is not
\* one of the three
InvalidAnalyzeRequest(r) ==
  LET body == Val(anBody[r])
  IN \/ body.content.length < 10
     \/ body.content.length > 50000
     \/ body.contentType \notin {"copywriting", "process", "technical"}

\* C25: an invalid request to analyze content (shorter than 10 characters,
\* longer than 50000, or of an unknown type) is answered with a validation
\* error (400) without a call of the service, without a slot of the rate
\* limiter and without a read or a write of the cache.
C25_InvalidRequestFailsEarly ==
  \A r \in AnalyzeRequests :
    (AnalyzeDone(r) /\ InvalidAnalyzeRequest(r))
    => /\ Val(anResp[r]).status = 400
       /\ anEffects[r] = {}
       /\ ~Succeeded(r)

\* a request with content of 5 characters was answered 400 and did nothing,
\* while another request went to the service and was cached
C25_Witness ==
  \E r, q \in AnalyzeRequests :
    /\ AnalyzeDone(r)
    /\ Val(anBody[r]).content.length = 5
    /\ Val(anResp[r]) = AnalyzeInvalid
    /\ anEffects[r] = {}
    /\ "cacheWrite" \in anEffects[q]
    /\ DOMAIN analysisCache # {}

\* C26: every successful analysis has a row in content_analyses whose key
\* is the analysisId of the result returned, so that generate-skill finds
\* it.
C26_SuccessfulAnalysisIsLogged ==
  \A r \in AnalyzeRequests :
    Succeeded(r) => Val(anOutcome[r]).value.analysisId \in content_analyses

\* ------------------------------------------------------------------------
\* Properties of the analysis cache
\* ------------------------------------------------------------------------
\* C34: an entry written to the cache stays in it for the full TTL counted
\* from its own write: no timer removes it before CacheTtlTicks have passed
\* since the entry was written.
C34_EntryLivesFullTtl ==
  [][\A k \in DOMAIN analysisCache :
       k \notin DOMAIN analysisCache'
       => clock >= analysisCache[k].timestamp + CacheTtlTicks]_vars

ServedFromCache(r) == Succeeded(r) /\ "service" \notin anEffects[r]

\* C35: no result is served from the cache more than the TTL after it was
\* written: a lookup that hits returns a result at most CacheTtlTicks old.
C35_NoStaleHit ==
  \A r \in AnalyzeRequests :
    ServedFromCache(r)
    => Val(anStart[r]) <= Val(anOutcome[r]).value.timestamp + CacheTtlTicks

\* a call was answered from the cache with a result that was written
\* exactly one TTL before
C35_Witness ==
  \E r \in AnalyzeRequests :
    /\ ServedFromCache(r)
    /\ Val(anStart[r]) = Val(anOutcome[r]).value.timestamp + CacheTtlTicks

FailsNow(r) ==
  /\ anPc[r] # "done"
  /\ anPc'[r] = "done"
  /\ ~(IsSome(anOutcome'[r]) /\ ~Val(anOutcome'[r]).threw)

\* C36: a call of analyzeContent that fails, at whatever stage, leaves the
\* analysis cache as it was, and every result the cache holds passed
\* parseClaudeResponse and validateAnalysisResponse (extractedData present,
\* confidence within 0..1).
C36_FailureLeavesCache ==
  /\ [][\A r \in AnalyzeRequests :
          FailsNow(r) => analysisCache' = analysisCache]_vars
  /\ [](\A k \in DOMAIN analysisCache :
          /\ Truthy(analysisCache[k].extractedData)
          /\ InUnitRange(analysisCache[k].confidence))

\* one call failed after the service was invoked while the cache holds the
\* result of another call
C36_Witness ==
  \E r, q \in AnalyzeRequests :
    /\ AnalyzeDone(r)
    /\ IsSome(anThrown[r])
    /\ "service" \in anEffects[r]
    /\ "cacheWrite" \in anEffects[q]
    /\ DOMAIN analysisCache # {}

\* ------------------------------------------------------------------------
\* Property of a failed generation
\* ------------------------------------------------------------------------
\* C37: a generate-skill request whose generateSkill call fails, at
\* whatever step, has persisted no skill row: the skills table is as it was
\* unless the call returned successfully (201).
C37_FailedGenerationPersistsNothing ==
  [][\A req \in GenerateRequests :
       (PostGenerateSkill(req) /\ resp'.status # 201)
       => skills' = skills]_vars

\* ------------------------------------------------------------------------
\* Property of formatSkillName
\* ------------------------------------------------------------------------
\* C33: formatSkillName is idempotent: applied to a name it returned, it
\* returns that name unchanged; and formatSkillName("My Skill!!") is
\* "my-skill".
C33_FormatSkillNameIdempotent ==
  /\ utilCall.fn = "formatSkillName.again"
     => Val(utilResult) = utilCall.arg
  /\ (utilCall.fn = "formatSkillName" /\ utilCall.arg = MySkillBangs)
     => Val(utilResult) = <<"m", "y", "-", "s", "k", "i", "l", "l">>

\* the name "a-b", returned by the first application, came back unchanged
\* from the second
C33_Witness ==
  /\ utilCall.fn = "formatSkillName.again"
  /\ utilCall.arg = <<"a", "-", "b">>
  /\ Val(utilResult) = <<"a", "-", "b">>

\* ------------------------------------------------------------------------
\* Property of analyzeContentWithRetry
\* ------------------------------------------------------------------------
NonRetryableAnalysisError(e) ==
  IsSome(e) /\ Val(e).name = "AnalysisError" /\ ~Val(e).retryable

\* C38: analyzeContentWithRetry invokes analyzeContent at most maxRetries
\* times; no invocation follows one that threw a non-retryable
\* AnalysisError or one that returned; before the (i+1)-th invocation it
\* slept 2^i * 1000 ms; and when it throws after an invocation, it throws
\* the error of the last invocation.
C38_WrapperRetries ==
  LET n == Len(wrInvocations)
  IN /\ n <= wrMaxRetries
     /\ \A i \in 1..(n - 1) :
          IsSome(wrInvocations[i]) /\ ~NonRetryableAnalysisError(wrInvocations[i])
     /\ Len(wrSleeps) = IF wrPc \in {"sleep", "call"} THEN n
                        ELSE IF n = 0 THEN 0 ELSE n - 1
     /\ \A i \in DOMAIN wrSleeps : wrSleeps[i] = (2 ^ i) * 1000
     /\ (wrPc = "threw" /\ n >= 1) => wrResult = Some(wrInvocations[n])
     /\ (wrPc = "threw" /\ n >= 1 /\ ~NonRetryableAnalysisError(wrInvocations[n]))
        => n = wrMaxRetries

\* with maxRetries 3 every invocation failed with a retryable error: three
\* invocations, sleeps of 2000 and 4000 ms, the last error thrown
C38_Witness ==
  /\ wrPc = "threw"
  /\ wrMaxRetries = 3
  /\ Len(wrInvocations) = 3
  /\ wrSleeps = <<2000, 4000>>
  /\ wrInvocations[1] # wrInvocations[3]
  /\ wrResult = Some(wrInvocations[3])

\* ------------------------------------------------------------------------
\* Properties of rendering
\* ------------------------------------------------------------------------
Rendered == utilCall.fn = "generateSkillFiles"

\* C31: rendering fails exactly when the type has no registered template
\* set; for a registered type it succeeds whatever fields are missing or
\* null, and returns the main document and the reference documents
\* practices.md, structure.md and examples.md.
C31_RenderFailsOnlyForUnregisteredType ==
  Rendered =>
    /\ Val(utilResult).threw
         <=> utilCall.arg.skillType \notin {"copywriting", "process", "technical"}
    /\ ~Val(utilResult).threw =>
         DOMAIN Val(utilResult).value.references =
           {"practices.md", "structure.md", "examples.md"}

\* the technical templates were rendered on data whose scalar field is
\* null and whose list field is missing
C31_Witness ==
  /\ Rendered
  /\ utilCall.arg.skillType = "technical"
  /\ utilCall.arg.templateData = [scalar |-> TNull, list |-> TUndefined]
  /\ ~Val(utilResult).threw
  /\ Val(utilResult).value.main.scalar = ""

IsBullet(line) == line.kind = "bullet"

\* C32: a list field is rendered as one bullet per element (and no other
\* text) when its value is a list, and as the literal text of the value
\* when the value is present but not a list: a string, a number or a
\* boolean.
C32_ListOrLiteral ==
  (Rendered /\ ~Val(utilResult).threw) =>
    LET v == utilCall.arg.templateData.list
        block == Val(utilResult).value.main.block
        bullets == SelectSeq(block, IsBullet)
    IN /\ v.type = "array" =>
            /\ [i \in DOMAIN bullets |-> bullets[i].text] = v.items
            /\ \A i \in DOMAIN block : IsBullet(block[i]) \/ block[i].text = ""
       /\ v.type \in {"string", "number", "boolean"} =>
            block = <<Literal(v.text)>>
====
